---- MODULE Spec2Model ----
(***************************************************************************)
(* The decorator layers of python-decorators-0x01 (with_db_connection,     *)
(* transactional, retry_on_failure, cache_query) as a small-step machine   *)
(* over a stack of wrapper frames, the cache key of cache_query as a pure  *)
(* function, the generators of python-generators-0x00 as resumable         *)
(* machines driven by a consumer, the context managers of                  *)
(* python-context-async-perations-0x02 as with statements, concurrent      *)
(* callers of the retry and cache wrappers, and access_nested_map.         *)
(***************************************************************************)
EXTENDS Integers, Sequences, FiniteSets, TLC

\* ------------------------------------------------------------------ bounds
\* external calls made one after the other (query_cache lives across them)
MaxCalls == 2
\* the largest configured value of retry_on_failure's `retries`
MaxRetries == 3

\* ------------------------------------------------------------ Python values
\* Atoms that can be bound to a query: None, an int, a str.
PyNone == [t |-> "None", s |-> "", n |-> 0]
PyInt(n) == [t |-> "int", s |-> "", n |-> n]
PyStr(s) == [t |-> "str", s |-> s, n |-> 0]

\* A connection object in an argument list: n is its place in conns.
PyConn(c) == [t |-> "Connection", s |-> "", n |-> c]

\* Python truthiness of an atom (`if not sql_query`).
Truthy(a) ==
  CASE a.t = "None" -> FALSE
    [] a.t = "int" -> a.n # 0
    [] a.t = "str" -> a.s # ""

\* Results of a wrapped operation: None, a list of rows, or one row
\* (fetchall / fetchone). A row is a sqlite3.Row or a plain tuple of the
\* same data.
Row(id) == [cls |-> "Row", id |-> id]
NoneValue == [t |-> "None", rows |-> <<>>]
ListOf(rows) == [t |-> "list", rows |-> rows]
OneRow(r) == [t |-> "Row", rows |-> <<r>>]

Results ==
  {NoneValue, ListOf(<<>>), ListOf(<<Row(1)>>), ListOf(<<Row(1), Row(2)>>),
   OneRow(Row(1))}

\* Exceptions in flight: the class, the statement that raised it, and for a
\* failure of the wrapped operation the number of the invocation that raised.
NoExc == [kind |-> "", origin |-> "", n |-> 0]
Exc(kind, origin, n) == [kind |-> kind, origin |-> origin, n |-> n]

\* sqlite3.OperationalError and sqlite3.ProgrammingError derive from
\* sqlite3.Error; ValueError, ZeroDivisionError and TypeError do not.
IsSqliteError(e) == e.kind \in {"OperationalError", "ProgrammingError"}

\* What the wrapped operations of the repository raise.
FuncFailures == {"OperationalError", "ValueError", "ZeroDivisionError"}

VARIABLES
  pipeline,     \* the decorators of the called function, outermost first
  retries,      \* the `retries` argument of retry_on_failure
  args,         \* the caller's positional arguments
  kwargs,       \* the caller's keyword arguments, in passing order
  depth,        \* the active frame: 0 caller, Len(pipeline)+1 the function
  mode,         \* "idle", "call", "return" or "raise"
  frames,       \* the locals of each wrapper frame
  value,        \* the value being returned
  exc,          \* the exception being raised
  conns,        \* every connection opened so far: "open" or "closed"
  log,          \* the calls made on collaborators during the current call
  query_cache,  \* the module-level dict of 4-cache_query.py
  calls,        \* external calls made
  held,         \* the result of a cache_query call in the caller's hands
  email,        \* users.email of one row, as committed: the number of the
                \* update that wrote it
  tx,           \* the value written in the connection's open transaction
  \* two calls of a cache_query wrapper and the keys computed for them
  callA, callB, keyA, keyB, keyPc,
  \* a generator of python-generators-0x00 and its consumer
  gen,          \* the generator function the consumer iterates
  rows,         \* the rows of user_data, in the order the cursor returns them
  batch_size,   \* the batch_size argument
  inner,        \* state of the generator that reads the cursor
  outer,        \* state of batch_processing, which iterates the batch stream
  connection,   \* "none", "open", or "closed" once connection.close() ran
  pos,          \* rows the cursor has handed out
  fetches,      \* fetches issued to the cursor
  requests,     \* elements the consumer has asked for
  batch,        \* the batch batch_processing is scanning
  idx,          \* rows of that batch already scanned
  out,          \* the elements delivered to the consumer
  raised,       \* the exception a generator raised to the consumer, or ""
  \* two threads that call one retry_on_failure-wrapped operation
  th_retries,   \* the `retries` the decorator was built with
  th_pc,        \* per thread: "idle", "try", "except", "returned", "raised"
  th_i,         \* the loop variable i, per frame that holds one
  th_attempts,  \* per thread: invocations of func in its current call
  th_sleeps,    \* per thread: time.sleep calls in its current call
  th_calls,     \* per thread: external calls started
  \* a with statement over a context manager of python-context-async-perations-0x02
  manager,      \* the class of the context manager, "" before any statement
  with_pc,      \* "idle", "enter", "block", "exit" or "done"
  self_conn,    \* self.conn: "None", or the state of the connection object
  with_log,     \* the calls the statement made on sqlite3 and the connection
  with_exc,     \* the exception that leaves the statement, or ""
  block_exc,    \* the exception the block raised, or ""
  statements,   \* statements the block executed on the connection
  withs,        \* with statements started
  left_open,    \* connections that statements already over left open
  \* one call of access_nested_map (0x03-Unittests_and_integration_tests)
  nested_map,   \* the first argument
  path,         \* the second argument, a tuple of keys
  map_pc,       \* "idle", "call" or "done"
  map_out,      \* what the call returned or raised
  \* two threads that call cache_query-wrapped operations
  cq_cache,     \* query_cache, shared by every wrapper and every thread
  cq_owner,     \* per stored key: the operation whose result is stored,
                \* and what the call that stored it gave its caller
  cq_op,        \* per thread: the wrapped operation it calls
  cq_kw,        \* per thread: the keyword arguments of its call
  cq_pc,        \* per thread: "idle", "check", "func", "store", "returned", "raised"
  cq_path,      \* per thread: "bypass", "hit" or "miss" once the call took it
  cq_result,    \* per thread: what the operation returned to the wrapper
  cq_value,     \* per thread: what the wrapper returned to the caller
  cq_exc,       \* per thread: the kind of the exception its call raised
  cq_invoked,   \* per thread: invocations of the operation in its call
  cq_calls      \* per thread: external calls started

callVars ==
  <<pipeline, retries, args, kwargs, depth, mode, frames, value, exc, conns,
    log, query_cache, calls, held, email, tx>>
keyVars == <<callA, callB, keyA, keyB, keyPc>>
streamVars ==
  <<gen, rows, batch_size, inner, outer, connection, pos, fetches, requests,
    batch, idx, out, raised>>
threadVars == <<th_retries, th_pc, th_i, th_attempts, th_sleeps, th_calls>>
withVars ==
  <<manager, with_pc, self_conn, with_log, with_exc, block_exc, statements, withs,
    left_open>>
mapVars == <<nested_map, path, map_pc, map_out>>
cacheVars ==
  <<cq_cache, cq_owner, cq_op, cq_kw, cq_pc, cq_path, cq_result, cq_value,
    cq_exc, cq_invoked, cq_calls>>
vars ==
  <<callVars, keyVars, streamVars, threadVars, withVars, mapVars, cacheVars>>

\* ------------------------------------------------------ cache_query: the key
\* Python orders the keyword names as strings: "name" < "query" < "user_id".
NameRank(k) ==
  CASE k = "name" -> 1
    [] k = "query" -> 2
    [] k = "user_id" -> 3

\* kwargs.get('query'): the value passed under 'query', or None.
KwGet(kw, name) ==
  IF \E j \in 1..Len(kw) : kw[j].k = name
    THEN kw[CHOOSE j \in 1..Len(kw) : kw[j].k = name].v
    ELSE PyNone

\* Faulty variant: kwargs.items() without sorted().
UnsortedItems(kw) == kw

\* sorted(kwargs.items()): the items in the order of their names (the names
\* of one call are distinct, so the values never decide the order).
RECURSIVE SortedItems(_)
SortedItems(kw) ==
  IF kw = <<>> THEN <<>>
  ELSE LET j == CHOOSE a \in 1..Len(kw) :
                  \A b \in 1..Len(kw) : NameRank(kw[a].k) <= NameRank(kw[b].k)
       IN <<kw[j]>> \o SortedItems(SubSeq(kw, 1, j - 1) \o SubSeq(kw, j + 1, Len(kw)))

\* One element of the key tuple: a bare value (the query, a positional
\* argument) or a (name, value) 2-tuple of a keyword argument.
Bare(a) == [pair |-> FALSE, k |-> "", v |-> a]
Pair(k, a) == [pair |-> TRUE, k |-> k, v |-> a]

\* Faulty variant: the key takes the names of the keyword arguments, not their
\* values (append(k)).
RECURSIVE KeywordNames(_)
KeywordNames(items) ==
  IF items = <<>> THEN <<>>
  ELSE (IF items[1].k # "query" THEN <<Pair(items[1].k, PyNone)>> ELSE <<>>)
       \o KeywordNames(Tail(items))

\* for k, v in sorted(kwargs.items()): if k != 'query': append((k, v))
RECURSIVE KeywordParts(_)
KeywordParts(items) ==
  IF items = <<>> THEN <<>>
  ELSE (IF items[1].k # "query" THEN <<Pair(items[1].k, items[1].v)>> ELSE <<>>)
       \o KeywordParts(Tail(items))

\* cache_key = tuple([sql_query] + list(args) + the keyword parts)
cache_key(a, kw) ==
  <<Bare(KwGet(kw, "query"))>>
  \o [j \in 1..Len(a) |-> Bare(a[j])]
  \o KeywordParts(SortedItems(kw))

\* --------------------------------------------- cache_query: the conversions
\* isinstance(result, list) and all(isinstance(r, sqlite3.Row) for r in result)
IsRowList(v) ==
  v.t = "list" /\ \A j \in 1..Len(v.rows) : v.rows[j].cls = "Row"

\* cacheable_result: [tuple(row) for row in result] for a list of rows, the
\* result itself otherwise.
Cacheable(v) ==
  IF IsRowList(v)
    THEN ListOf([j \in 1..Len(v.rows) |-> [cls |-> "tuple", id |-> v.rows[j].id]])
    ELSE v

\* Python truthiness of a result: None and the empty list are falsy; a
\* sqlite3.Row of at least one column is truthy.
TruthyValue(v) == v.t # "None" /\ v.rows # <<>>

\* sqlite3.Row(...) takes (cursor, data): a call with another number of
\* arguments raises TypeError.
RowCallFails(argc) == argc # 2

\* [sqlite3.Row(row) for row in stored] if stored else []
\* The comprehension calls sqlite3.Row with one argument for every element
\* it iterates over (the tuples of a list, the column values of a Row).
Materialize(stored) ==
  IF ~TruthyValue(stored) THEN [ok |-> TRUE, v |-> ListOf(<<>>)]
  ELSE IF RowCallFails(1) THEN [ok |-> FALSE, v |-> NoneValue]
  ELSE [ok |-> TRUE,
        v |-> ListOf([j \in 1..Len(stored.rows) |-> Row(stored.rows[j].id)])]

\* ------------------------------------------------------------------ frames
Layer(d) == IF d \in 1..Len(pipeline) THEN pipeline[d] ELSE "func"

NoFrame == [conn |-> 0, i |-> 0, pc |-> ""]

\* The caller holds no result of a cached call.
NoHeld == [key |-> <<>>, shared |-> FALSE, v |-> NoneValue, mutated |-> FALSE]

\* The connection has no uncommitted write.
NoTx == 0 - 1

\* The definitions of with_db_connection: the one of 2-transactional.py,
\* 3-retry_on_failure.py and 4-cache_query.py, and the earlier one of
\* 1-with_db_connection.py. Both open the connection and call
\* func(conn, *args, **kwargs) in the same way.
IsScope(l) == l \in {"with_db_connection", "with_db_connection_1"}

\* isinstance(a, sqlite3.Connection) for a first positional argument of the
\* caller: the place of the connection in conns, 0 for anything else. A
\* closed connection is still an instance of sqlite3.Connection.
PassedConn(a) ==
  IF a # <<>> /\ a[1].t = "Connection" THEN a[1].n ELSE 0

\* The first positional argument the callee at depth d receives: the
\* connection of the nearest enclosing with_db_connection frame
\* (func(conn, *args, **kwargs)), else the connection the caller passed;
\* 0 when it is not a connection.
FirstArg(d) ==
  LET S == {j \in 1..(d - 1) : j <= Len(pipeline) /\ IsScope(pipeline[j])}
  IN IF S = {} THEN PassedConn(args)
     ELSE frames[CHOOSE j \in S : \A k \in S : k <= j].conn

\* A call on a collaborator, as the log records it: what was called, on
\* which connection, whether it returned normally, and for the wrapped
\* function the exception class it raised or the result it returned.
Ev(ev, c, ok) == [ev |-> ev, c |-> c, ok |-> ok, k |-> "", v |-> NoneValue]
FuncEv(c, ok, k, v) == [ev |-> "func", c |-> c, ok |-> ok, k |-> k, v |-> v]

Count(l, ev) == Cardinality({j \in 1..Len(l) : l[j].ev = ev})
CountOn(l, ev, c) == Cardinality({j \in 1..Len(l) : l[j].ev = ev /\ l[j].c = c})

\* ------------------------------------------------------ the decorated calls
\* The decorator stacks of the repository.
Pipelines ==
  { <<"with_db_connection_1">>,
    <<"with_db_connection">>,
    <<"with_db_connection", "transactional">>,
    <<"with_db_connection", "retry_on_failure">>,
    <<"with_db_connection", "cache_query">> }

RetryConfigs == (0 - 1)..MaxRetries

Q1 == PyStr("SELECT * FROM users")
Q2 == PyStr("SELECT * FROM users WHERE id = ?")
Kw(k, a) == [k |-> k, v |-> a]

\* The keyword arguments of the calls of fetch_users_with_cache, and a call
\* without 'query'.
CacheCalls ==
  { <<Kw("query", Q1)>>,
    <<Kw("query", Q2), Kw("user_id", PyInt(1))>>,
    <<Kw("user_id", PyInt(1)), Kw("query", Q2)>>,
    <<Kw("query", Q2), Kw("user_id", PyInt(2))>>,
    <<Kw("user_id", PyInt(1))>> }

InitCalls ==
  /\ pipeline = <<>>
  /\ retries = 0
  /\ args = <<>>
  /\ kwargs = <<>>
  /\ depth = 0
  /\ mode = "idle"
  /\ frames = <<>>
  /\ value = NoneValue
  /\ exc = NoExc
  /\ conns = <<>>
  /\ log = <<>>
  /\ query_cache = [k \in {} |-> NoneValue]
  /\ calls = 0
  /\ held = NoHeld
  /\ email = 0
  /\ tx = NoTx

\* The caller invokes a decorated function; the previous call has ended.
Call ==
  /\ depth = 0
  /\ mode \in {"idle", "return", "raise"}
  /\ calls < MaxCalls
  /\ \E p \in Pipelines :
       /\ pipeline' = p
       /\ frames' = [j \in 1..Len(p) |-> NoFrame]
       /\ \E r \in (IF p[Len(p)] = "retry_on_failure" THEN RetryConfigs ELSE {0}) :
            retries' = r
       /\ \E kw \in (IF p[Len(p)] = "cache_query" THEN CacheCalls ELSE {<<>>}) :
            kwargs' = kw
  /\ args' = <<>>
  /\ depth' = 1
  /\ mode' = "call"
  /\ value' = NoneValue
  /\ exc' = NoExc
  /\ log' = <<>>
  /\ calls' = calls + 1
  /\ held' = NoHeld
  /\ UNCHANGED <<conns, query_cache>>
  /\ UNCHANGED <<email, tx>>
  /\ UNCHANGED <<keyVars, streamVars, threadVars, withVars, mapVars, cacheVars>>

\* transactional applied to a function and called with a first argument of
\* the caller's choice: nothing usable (None, the path of the database), a
\* connection that is open, or a connection that was closed before the call.
FirstArguments == {"None", "str", "open", "closed"}

\* transactional alone, and under retry_on_failure.
DirectPipelines ==
  { <<"transactional">>, <<"retry_on_failure", "transactional">> }

\* The first arguments tried with each of them: under retry_on_failure only
\* the ones that are not a connection.
FirstArgumentsOf(p) ==
  IF p[1] = "retry_on_failure" THEN {"None", "str"} ELSE FirstArguments

CallDirect ==
  /\ depth = 0
  /\ mode \in {"idle", "return", "raise"}
  /\ calls < MaxCalls
  /\ \E p \in DirectPipelines :
       /\ pipeline' = p
       /\ frames' = [j \in 1..Len(p) |-> NoFrame]
       /\ \E r \in (IF p[1] = "retry_on_failure" THEN RetryConfigs ELSE {0}) :
            retries' = r
       /\ \E h \in FirstArgumentsOf(p) :
            CASE h = "None" -> args' = <<PyNone>> /\ UNCHANGED conns
              [] h = "str" -> args' = <<PyStr("users.db")>> /\ UNCHANGED conns
              [] OTHER -> /\ args' = <<PyConn(Len(conns) + 1)>>
                          /\ conns' = Append(conns, h)
  /\ depth' = 1
  /\ mode' = "call"
  /\ value' = NoneValue
  /\ exc' = NoExc
  /\ log' = <<>>
  /\ calls' = calls + 1
  /\ held' = NoHeld
  /\ UNCHANGED <<kwargs, query_cache, email, tx>>
  /\ UNCHANGED <<keyVars, streamVars, threadVars, withVars, mapVars, cacheVars>>

\* ------------------------------------------------------ with_db_connection
\* Faulty variant: the connection is closed as soon as it is opened, before
\* func is called with it.
with_db_connection_enter_closing ==
  /\ mode = "call"
  /\ Layer(depth) = "with_db_connection"
  /\ conns' = Append(conns, "closed")
  /\ frames' = [frames EXCEPT ![depth].conn = Len(conns) + 1]
  /\ log' = log \o <<Ev("connect", Len(conns) + 1, TRUE),
                      Ev("close", Len(conns) + 1, TRUE)>>
  /\ depth' = depth + 1
  /\ UNCHANGED <<pipeline, retries, args, kwargs, mode, exc, value, query_cache,
                 calls, held, email, tx>>
  /\ UNCHANGED <<keyVars, streamVars, threadVars, withVars, mapVars, cacheVars>>

\* try: conn = sqlite3.connect('users.db'); result = func(conn, ...)
\* A failing connect is a sqlite3.Error raised inside the try block, with
\* conn still None: the except and finally clauses of this frame handle it.
with_db_connection_enter ==
  /\ mode = "call"
  /\ IsScope(Layer(depth))
  /\ \/ /\ conns' = Append(conns, "open")
        /\ frames' = [frames EXCEPT ![depth].conn = Len(conns) + 1]
        /\ log' = Append(log, Ev("connect", Len(conns) + 1, TRUE))
        /\ depth' = depth + 1
        /\ UNCHANGED <<mode, exc>>
     \/ /\ log' = Append(log, Ev("connect", 0, FALSE))
        /\ mode' = "raise"
        /\ exc' = Exc("OperationalError", "connect", 0)
        /\ UNCHANGED <<conns, frames, depth>>
  /\ UNCHANGED <<pipeline, retries, args, kwargs, value, query_cache, calls>>
  /\ UNCHANGED <<held, email, tx>>
  /\ UNCHANGED <<keyVars, streamVars, threadVars, withVars, mapVars, cacheVars>>

\* Faulty variant: conn.close() at the end of the try block instead of in finally.
with_db_connection_close_in_try(c) ==
  IF c # 0 /\ mode = "return"
    THEN /\ conns' = [conns EXCEPT ![c] = "closed"]
         /\ log' = Append(log, Ev("close", c, TRUE))
         /\ tx' = NoTx
    ELSE UNCHANGED <<conns, log, tx>>

\* Faulty variant: conn.close() without the `if conn` test.
with_db_connection_finally_unguarded(c) ==
  /\ conns' = IF c # 0 THEN [conns EXCEPT ![c] = "closed"] ELSE conns
  /\ log' = Append(log, Ev("close", c, c # 0))
  /\ tx' = NoTx

\* finally: if conn: conn.close()
\* Closing a connection discards the writes of its open transaction.
with_db_connection_finally(c) ==
  IF c # 0
    THEN /\ conns' = [conns EXCEPT ![c] = "closed"]
         /\ log' = Append(log, Ev("close", c, TRUE))
         /\ tx' = NoTx
    ELSE UNCHANGED <<conns, log, tx>>

\* return result, through the finally clause
with_db_connection_return ==
  /\ mode = "return"
  /\ Layer(depth) = "with_db_connection"
  /\ with_db_connection_finally(frames[depth].conn)
  /\ depth' = depth - 1
  /\ UNCHANGED <<pipeline, retries, args, kwargs, mode, frames, value, exc,
                 query_cache, calls>>
  /\ UNCHANGED <<held, email>>
  /\ UNCHANGED <<keyVars, streamVars, threadVars, withVars, mapVars, cacheVars>>

\* except sqlite3.Error: log and re-raise; any other exception passes; both
\* leave through the finally clause with the exception unchanged.
with_db_connection_except ==
  /\ mode = "raise"
  /\ Layer(depth) = "with_db_connection"
  /\ with_db_connection_finally(frames[depth].conn)
  /\ depth' = depth - 1
  /\ UNCHANGED <<pipeline, retries, args, kwargs, mode, frames, value, exc,
                 query_cache, calls>>
  /\ UNCHANGED <<held, email>>
  /\ UNCHANGED <<keyVars, streamVars, threadVars, withVars, mapVars, cacheVars>>

\* ------------------------------------------------------------ transactional
\* if not isinstance(conn, sqlite3.Connection): raise TypeError(...)
\* else: try: result = func(conn, *args, **kwargs)
transactional_enter ==
  /\ mode = "call"
  /\ Layer(depth) = "transactional"
  /\ IF FirstArg(depth) = 0
       THEN /\ mode' = "raise"
            /\ exc' = Exc("TypeError", "transactional", 0)
            /\ log' = Append(log, Ev("precondition", 0, FALSE))
            /\ depth' = depth - 1
            /\ UNCHANGED frames
       ELSE /\ frames' = [frames EXCEPT ![depth].conn = FirstArg(depth)]
            /\ depth' = depth + 1
            /\ UNCHANGED <<mode, exc, log>>
  /\ UNCHANGED <<pipeline, retries, args, kwargs, value, conns,
                 query_cache, calls>>
  /\ UNCHANGED <<held, email, tx>>
  /\ UNCHANGED <<keyVars, streamVars, threadVars, withVars, mapVars, cacheVars>>

\* except Exception as e: conn.rollback(); raise
\* The log after the handler ran for exception e, and the exception that
\* leaves it: e itself, or the ProgrammingError of a rollback on a closed
\* connection.
transactional_rollback(l, c) == Append(l, Ev("rollback", c, conns[c] = "open"))

\* Faulty variant: raise a new exception in place of the bare `raise`.
transactional_raise_wrapped(e, c) == Exc("RuntimeError", "transactional", 0)

transactional_reraise(e, c) ==
  IF conns[c] = "open" THEN e ELSE Exc("ProgrammingError", "rollback", 0)

\* Faulty variant: the commit is issued twice.
transactional_commit_twice(l, c, ok) ==
  Append(Append(l, Ev("commit", c, ok)), Ev("commit", c, ok))

\* conn.commit(), as the log records it
transactional_commit(l, c, ok) == Append(l, Ev("commit", c, ok))

\* The committed value after a conn.commit() that succeeded: the value the
\* transaction wrote, if it wrote one.
commit_value(e, t) == IF t = NoTx THEN e ELSE t

\* Faulty variant: the handler commits what the failed operation wrote.
rollback_value_commits(e, t) == IF t = NoTx THEN e ELSE t

\* The committed value after conn.rollback(): the one before the transaction.
rollback_value(e, t) == e

\* conn.commit() after func returned; return result. The commit is inside
\* the try block: a commit that raises (the database is locked, the
\* connection is closed) is handled by the except clause like a failure of
\* func.
transactional_return ==
  /\ mode = "return"
  /\ Layer(depth) = "transactional"
  /\ LET c == frames[depth].conn IN
       \/ /\ conns[c] = "open"
          /\ log' = transactional_commit(log, c, TRUE)
          /\ email' = commit_value(email, tx)
          /\ UNCHANGED <<mode, exc, value>>
       \/ /\ log' = transactional_rollback(Append(log, Ev("commit", c, FALSE)), c)
          /\ email' = rollback_value(email, tx)
          /\ mode' = "raise"
          /\ exc' = transactional_reraise(
                      Exc(IF conns[c] = "open" THEN "OperationalError"
                                               ELSE "ProgrammingError", "commit", 0), c)
          /\ value' = NoneValue
  /\ depth' = depth - 1
  /\ tx' = NoTx
  /\ UNCHANGED <<pipeline, retries, args, kwargs, frames, conns, query_cache, calls>>
  /\ UNCHANGED <<held>>
  /\ UNCHANGED <<keyVars, streamVars, threadVars, withVars, mapVars, cacheVars>>

\* func raised: except Exception as e: conn.rollback(); raise
transactional_except ==
  /\ mode = "raise"
  /\ Layer(depth) = "transactional"
  /\ log' = transactional_rollback(log, frames[depth].conn)
  /\ exc' = transactional_reraise(exc, frames[depth].conn)
  /\ email' = rollback_value(email, tx)
  /\ tx' = NoTx
  /\ depth' = depth - 1
  /\ UNCHANGED <<pipeline, retries, args, kwargs, mode, frames, value, conns,
                 query_cache, calls>>
  /\ UNCHANGED <<held>>
  /\ UNCHANGED <<keyVars, streamVars, threadVars, withVars, mapVars, cacheVars>>

\* ------------------------------- with_db_connection of 1-with_db_connection.py
\* A call this wrapper makes on the connection between opening and closing it.
ScopeEv(ev, c, ok) ==
  [ev |-> ev, c |-> c, ok |-> ok, k |-> "with_db_connection", v |-> NoneValue]

\* func returned: conn.commit(); return result. A commit that raises is a
\* sqlite3.Error: the handler rolls back and re-raises it. The finally clause
\* closes the connection in both cases.
with_db_connection_1_return ==
  /\ mode = "return"
  /\ Layer(depth) = "with_db_connection_1"
  /\ LET c == frames[depth].conn IN
       /\ \/ /\ log' = log \o <<ScopeEv("commit", c, TRUE), Ev("close", c, TRUE)>>
             /\ email' = commit_value(email, tx)
             /\ UNCHANGED <<mode, exc, value>>
          \/ /\ log' = log \o <<ScopeEv("commit", c, FALSE),
                                 ScopeEv("rollback", c, TRUE), Ev("close", c, TRUE)>>
             /\ email' = rollback_value(email, tx)
             /\ mode' = "raise"
             /\ exc' = Exc("OperationalError", "commit", 0)
             /\ value' = NoneValue
       /\ conns' = [conns EXCEPT ![c] = "closed"]
  /\ tx' = NoTx
  /\ depth' = depth - 1
  /\ UNCHANGED <<pipeline, retries, args, kwargs, frames, query_cache, calls, held>>
  /\ UNCHANGED <<keyVars, streamVars, threadVars, withVars, mapVars, cacheVars>>

\* except sqlite3.Error: if conn: conn.rollback(); raise -- any other
\* exception passes; finally: if conn: conn.close()
with_db_connection_1_except ==
  /\ mode = "raise"
  /\ Layer(depth) = "with_db_connection_1"
  /\ LET c == frames[depth].conn IN
       IF c = 0 THEN UNCHANGED <<log, conns>>
       ELSE /\ log' = IF IsSqliteError(exc)
                        THEN log \o <<ScopeEv("rollback", c, TRUE), Ev("close", c, TRUE)>>
                        ELSE Append(log, Ev("close", c, TRUE))
            /\ conns' = [conns EXCEPT ![c] = "closed"]
  /\ tx' = NoTx
  /\ depth' = depth - 1
  /\ UNCHANGED <<pipeline, retries, args, kwargs, mode, frames, value, exc,
                 query_cache, calls, held, email>>
  /\ UNCHANGED <<keyVars, streamVars, threadVars, withVars, mapVars, cacheVars>>

\* --------------------------------------------------------- retry_on_failure
\* for i in range(retries + 1): the number of iterations of the loop
retry_range(r) == IF r + 1 > 0 THEN r + 1 ELSE 0

\* Faulty variant: the bound counts total tries (i + 1 < retries).
retry_again_total_tries(i, r) == i + 1 < r

\* if i < retries: sleep and go on, else: raise
retry_again(i, r) == i < r

\* Faulty variant: raise RuntimeError("retries exhausted") in place of `raise`.
retry_on_failure_raise_new(e) == Exc("RuntimeError", "retry_on_failure", 0)

\* else: raise -- the exception being handled leaves the wrapper
retry_on_failure_raise(e) == e

\* for i in range(retries + 1): try: return func(*args, **kwargs)
\* An empty range runs no iteration and the wrapper returns None.
retry_on_failure_enter ==
  /\ mode = "call"
  /\ Layer(depth) = "retry_on_failure"
  /\ IF retry_range(retries) = 0
       THEN /\ mode' = "return"
            /\ value' = NoneValue
            /\ depth' = depth - 1
            /\ UNCHANGED frames
       ELSE /\ frames' = [frames EXCEPT ![depth].i = 0]
            /\ depth' = depth + 1
            /\ UNCHANGED <<mode, value>>
  /\ UNCHANGED <<pipeline, retries, args, kwargs, exc, conns, log, query_cache, calls>>
  /\ UNCHANGED <<held, email, tx>>
  /\ UNCHANGED <<keyVars, streamVars, threadVars, withVars, mapVars, cacheVars>>

\* Faulty variant: `func(*args, **kwargs)` without `return`: the loop goes on after a
\* success and the wrapper ends by returning None.
retry_on_failure_no_return ==
  /\ mode = "return"
  /\ Layer(depth) = "retry_on_failure"
  /\ IF frames[depth].i + 1 < retry_range(retries)
       THEN /\ frames' = [frames EXCEPT ![depth].i = @ + 1]
            /\ mode' = "call"
            /\ depth' = depth + 1
            /\ UNCHANGED value
       ELSE /\ value' = NoneValue
            /\ depth' = depth - 1
            /\ UNCHANGED <<frames, mode>>
  /\ UNCHANGED <<pipeline, retries, args, kwargs, exc, conns, log, query_cache, calls>>
  /\ UNCHANGED <<held, email, tx>>
  /\ UNCHANGED <<keyVars, streamVars, threadVars, withVars, mapVars, cacheVars>>

\* return func(*args, **kwargs)
retry_on_failure_return ==
  /\ mode = "return"
  /\ Layer(depth) = "retry_on_failure"
  /\ depth' = depth - 1
  /\ UNCHANGED <<pipeline, retries, args, kwargs, mode, frames, value, exc,
                 conns, log, query_cache, calls>>
  /\ UNCHANGED <<held, email, tx>>
  /\ UNCHANGED <<keyVars, streamVars, threadVars, withVars, mapVars, cacheVars>>

\* Faulty variant: the handler is `except sqlite3.Error`, any other failure
\* leaves the wrapper at once.
retry_catches_sqlite(e) == IsSqliteError(e)

\* except Exception as e: every failure the operation raises is caught
retry_catches(e) == TRUE

\* except Exception as e: if i < retries: time.sleep(delay), and the loop
\* calls func again with the same arguments; else: raise. A failure the
\* handler does not catch leaves the wrapper as it is.
retry_on_failure_except ==
  /\ mode = "raise"
  /\ Layer(depth) = "retry_on_failure"
  /\ IF retry_catches(exc) /\ retry_again(frames[depth].i, retries)
       THEN /\ log' = Append(log, Ev("sleep", 0, TRUE))
            /\ frames' = [frames EXCEPT ![depth].i = @ + 1]
            /\ mode' = "call"
            /\ exc' = NoExc
            /\ depth' = depth + 1
       ELSE /\ exc' = retry_on_failure_raise(exc)
            /\ depth' = depth - 1
            /\ UNCHANGED <<log, frames, mode>>
  /\ UNCHANGED <<pipeline, retries, args, kwargs, value, conns, query_cache, calls>>
  /\ UNCHANGED <<held, email, tx>>
  /\ UNCHANGED <<keyVars, streamVars, threadVars, withVars, mapVars, cacheVars>>

\* ------------------------------------- retry_on_failure, concurrent callers
\* Two threads call the same wrapped operation: they share the closure
\* (func, retries, delay), and each invocation of wrapper has its own frame.
Threads == {1, 2}

\* Faulty variant: the counter is a variable of the closure (nonlocal i),
\* one for all invocations.
wrapper_frame_shared(t) == 1

\* `i` is a local variable of wrapper: each invocation has its own.
wrapper_frame(t) == t

InitThreads ==
  /\ th_retries \in RetryConfigs
  /\ th_pc = [t \in Threads |-> "idle"]
  /\ th_i = [t \in Threads |-> 0]
  /\ th_attempts = [t \in Threads |-> 0]
  /\ th_sleeps = [t \in Threads |-> 0]
  /\ th_calls = [t \in Threads |-> 0]

IdleThreads ==
  /\ th_retries = 0
  /\ th_pc = [t \in Threads |-> "idle"]
  /\ th_i = [t \in Threads |-> 0]
  /\ th_attempts = [t \in Threads |-> 0]
  /\ th_sleeps = [t \in Threads |-> 0]
  /\ th_calls = [t \in Threads |-> 0]

\* A thread calls the wrapped operation: for i in range(retries + 1) starts
\* at i = 0; an empty range runs no iteration and the call returns None.
thread_call(t) ==
  /\ th_pc[t] \in {"idle", "returned", "raised"}
  /\ th_calls[t] < MaxCalls
  /\ th_calls' = [th_calls EXCEPT ![t] = @ + 1]
  /\ th_attempts' = [th_attempts EXCEPT ![t] = 0]
  /\ th_sleeps' = [th_sleeps EXCEPT ![t] = 0]
  /\ IF retry_range(th_retries) = 0
       THEN /\ th_pc' = [th_pc EXCEPT ![t] = "returned"]
            /\ UNCHANGED th_i
       ELSE /\ th_pc' = [th_pc EXCEPT ![t] = "try"]
            /\ th_i' = [th_i EXCEPT ![wrapper_frame(t)] = 0]
  /\ UNCHANGED th_retries
  /\ UNCHANGED <<callVars, keyVars, streamVars, withVars, mapVars, cacheVars>>

\* try: return func(*args, **kwargs) -- func returns or raises
thread_try(t) ==
  /\ th_pc[t] = "try"
  /\ th_attempts' = [th_attempts EXCEPT ![t] = @ + 1]
  /\ \E ok \in BOOLEAN :
       th_pc' = [th_pc EXCEPT ![t] = IF ok THEN "returned" ELSE "except"]
  /\ UNCHANGED <<th_retries, th_i, th_sleeps, th_calls>>
  /\ UNCHANGED <<callVars, keyVars, streamVars, withVars, mapVars, cacheVars>>

\* except Exception: if i < retries: time.sleep(delay), and the loop goes on
\* with the next i; else: raise
thread_except(t) ==
  /\ th_pc[t] = "except"
  /\ IF retry_again(th_i[wrapper_frame(t)], th_retries)
       THEN /\ th_sleeps' = [th_sleeps EXCEPT ![t] = @ + 1]
            /\ th_i' = [th_i EXCEPT ![wrapper_frame(t)] = @ + 1]
            /\ th_pc' = [th_pc EXCEPT ![t] = "try"]
       ELSE /\ th_pc' = [th_pc EXCEPT ![t] = "raised"]
            /\ UNCHANGED <<th_sleeps, th_i>>
  /\ UNCHANGED <<th_retries, th_attempts, th_calls>>
  /\ UNCHANGED <<callVars, keyVars, streamVars, withVars, mapVars, cacheVars>>

\* ------------------------------- context managers: DatabaseConnection, ExecuteQuery
MaxStatements == 2

Managers == {"DatabaseConnection", "ExecuteQuery"}

WithEv(ev, ok) == [ev |-> ev, ok |-> ok]

\* Before any with statement.
IdleWith ==
  /\ manager = ""
  /\ with_pc = "idle"
  /\ self_conn = "None"
  /\ with_log = <<>>
  /\ with_exc = ""
  /\ block_exc = ""
  /\ statements = 0
  /\ withs = 0
  /\ left_open = 0

\* with DatabaseConnection('users.db') as conn: / with ExecuteQuery(db, query,
\* params) as results: -- __init__ sets self.conn = None, then __enter__ is
\* called. The manager of the statement before is dropped with the
\* connection it holds.
with_statement ==
  /\ with_pc \in {"idle", "done"}
  /\ withs < MaxCalls
  /\ withs' = withs + 1
  /\ manager' \in Managers
  /\ with_pc' = "enter"
  /\ self_conn' = "None"
  /\ with_log' = <<>>
  /\ with_exc' = ""
  /\ block_exc' = ""
  /\ statements' = 0
  /\ left_open' = IF self_conn = "open" THEN left_open + 1 ELSE left_open
  /\ UNCHANGED <<callVars, keyVars, streamVars, threadVars, mapVars, cacheVars>>

\* DatabaseConnection.__enter__: connect and return the connection; a
\* failing connect is logged and re-raised, and a with statement whose
\* __enter__ raised runs neither the block nor __exit__.
DatabaseConnection_enter ==
  /\ with_pc = "enter"
  /\ manager = "DatabaseConnection"
  /\ \/ /\ with_log' = Append(with_log, WithEv("connect", FALSE))
        /\ with_exc' = "OperationalError"
        /\ with_pc' = "done"
        /\ UNCHANGED self_conn
     \/ /\ with_log' = Append(with_log, WithEv("connect", TRUE))
        /\ self_conn' = "open"
        /\ with_pc' = "block"
        /\ UNCHANGED with_exc
  /\ UNCHANGED <<manager, block_exc, statements, withs, left_open>>
  /\ UNCHANGED <<callVars, keyVars, streamVars, threadVars, mapVars, cacheVars>>

\* ExecuteQuery.__enter__: connect, execute the query, fetch and return the
\* rows. A sqlite3.Error of connect or of execute is logged and re-raised
\* out of __enter__: the block and __exit__ do not run, and self.conn, once
\* assigned, stays as it is.
ExecuteQuery_enter ==
  /\ with_pc = "enter"
  /\ manager = "ExecuteQuery"
  /\ \/ /\ with_log' = Append(with_log, WithEv("connect", FALSE))
        /\ with_exc' = "OperationalError"
        /\ with_pc' = "done"
        /\ UNCHANGED self_conn
     \/ /\ with_log' = with_log \o <<WithEv("connect", TRUE), WithEv("execute", FALSE)>>
        /\ self_conn' = "open"
        /\ with_exc' = "OperationalError"
        /\ with_pc' = "done"
     \/ /\ with_log' = with_log \o <<WithEv("connect", TRUE), WithEv("execute", TRUE)>>
        /\ self_conn' = "open"
        /\ with_pc' = "block"
        /\ UNCHANGED with_exc
  /\ UNCHANGED <<manager, block_exc, statements, withs, left_open>>
  /\ UNCHANGED <<callVars, keyVars, streamVars, threadVars, mapVars, cacheVars>>

\* The block of a DatabaseConnection statement executes a statement on the
\* connection it was handed (cursor.execute).
block_execute ==
  /\ with_pc = "block"
  /\ manager = "DatabaseConnection"
  /\ statements < MaxStatements
  /\ statements' = statements + 1
  /\ with_log' = Append(with_log, WithEv("execute", TRUE))
  /\ UNCHANGED <<manager, with_pc, self_conn, with_exc, block_exc, withs, left_open>>
  /\ UNCHANGED <<callVars, keyVars, streamVars, threadVars, mapVars, cacheVars>>

\* The block ends: it runs to its last line, or a statement of it raises.
\* The with statement then calls __exit__ with the exception, if any.
block_end ==
  /\ with_pc = "block"
  /\ block_exc' \in {""} \cup FuncFailures
  /\ with_pc' = "exit"
  /\ UNCHANGED <<manager, self_conn, with_log, with_exc, statements, withs,
                 left_open>>
  /\ UNCHANGED <<callVars, keyVars, streamVars, threadVars, mapVars, cacheVars>>

\* DatabaseConnection.__exit__: if self.conn: rollback when the block
\* raised, commit when it did not; then close; return False, so the
\* block's exception goes on to the caller. A commit that raises leaves
\* __exit__ at that line.
DatabaseConnection_exit ==
  /\ with_pc = "exit"
  /\ manager = "DatabaseConnection"
  /\ IF block_exc # ""
       THEN /\ with_log' = with_log \o <<WithEv("rollback", TRUE), WithEv("close", TRUE)>>
            /\ self_conn' = "closed"
            /\ with_exc' = block_exc
       ELSE \/ /\ with_log' = with_log \o <<WithEv("commit", TRUE), WithEv("close", TRUE)>>
               /\ self_conn' = "closed"
               /\ with_exc' = ""
            \/ /\ with_log' = Append(with_log, WithEv("commit", FALSE))
               /\ with_exc' = "OperationalError"
               /\ UNCHANGED self_conn
  /\ with_pc' = "done"
  /\ UNCHANGED <<manager, block_exc, statements, withs, left_open>>
  /\ UNCHANGED <<callVars, keyVars, streamVars, threadVars, mapVars, cacheVars>>

\* ExecuteQuery.__exit__: the same steps as DatabaseConnection.__exit__.
ExecuteQuery_exit ==
  /\ with_pc = "exit"
  /\ manager = "ExecuteQuery"
  /\ IF block_exc # ""
       THEN /\ with_log' = with_log \o <<WithEv("rollback", TRUE), WithEv("close", TRUE)>>
            /\ self_conn' = "closed"
            /\ with_exc' = block_exc
       ELSE \/ /\ with_log' = with_log \o <<WithEv("commit", TRUE), WithEv("close", TRUE)>>
               /\ self_conn' = "closed"
               /\ with_exc' = ""
            \/ /\ with_log' = Append(with_log, WithEv("commit", FALSE))
               /\ with_exc' = "OperationalError"
               /\ UNCHANGED self_conn
  /\ with_pc' = "done"
  /\ UNCHANGED <<manager, block_exc, statements, withs, left_open>>
  /\ UNCHANGED <<callVars, keyVars, streamVars, threadVars, mapVars, cacheVars>>

\* -------------------------------------------------------------- cache_query
\* Faulty variant: the wrapper goes on to the cache without the test.
cache_bypass_never(kw) == FALSE

\* sql_query = kwargs.get('query'); if not sql_query: return func(...)
cache_bypass(kw) == ~Truthy(KwGet(kw, "query"))

\* Faulty variant: the lookup uses the list of parts, the store the tuple: no
\* lookup ever finds its key.
cache_hit_never(kw, a, cache) == FALSE

\* if cache_key in query_cache
cache_hit(kw, a, cache) == cache_key(a, kw) \in DOMAIN cache

\* Faulty variant: the hit returns the stored object itself
\* (return query_cache[cache_key]).
hit_result_stored(stored) == [ok |-> TRUE, v |-> stored, shared |-> TRUE]

\* return [sqlite3.Row(row) for row in query_cache[cache_key]]
\*        if query_cache[cache_key] else []
\* What the hit hands to the caller: the comprehension and the [] literal
\* both build a new list, which shares nothing with the stored one.
hit_result(stored) ==
  [ok |-> Materialize(stored).ok, v |-> Materialize(stored).v, shared |-> FALSE]

\* The object a returning cached call leaves in the caller's hands.
Held(key, r) == [key |-> key, shared |-> r.shared, v |-> r.v, mutated |-> FALSE]

\* Entering the wrapper: without a query the call goes straight to func; on
\* a hit the stored entry is re-materialized and returned without calling
\* func; on a miss func is called.
cache_query_enter ==
  /\ mode = "call"
  /\ Layer(depth) = "cache_query"
  /\ IF cache_bypass(kwargs)
       THEN /\ frames' = [frames EXCEPT ![depth].pc = "bypass"]
            /\ depth' = depth + 1
            /\ UNCHANGED <<mode, value, exc, log, held>>
       ELSE IF cache_hit(kwargs, args, query_cache)
       THEN LET m == hit_result(query_cache[cache_key(args, kwargs)]) IN
            /\ log' = Append(log, Ev("hit", 0, m.ok))
            /\ mode' = IF m.ok THEN "return" ELSE "raise"
            /\ value' = m.v
            /\ exc' = IF m.ok THEN NoExc ELSE Exc("TypeError", "Row", 0)
            /\ held' = IF m.ok THEN Held(cache_key(args, kwargs), m) ELSE held
            /\ depth' = depth - 1
            /\ UNCHANGED frames
       ELSE /\ frames' = [frames EXCEPT ![depth].pc = "miss"]
            /\ log' = Append(log, Ev("miss", 0, TRUE))
            /\ depth' = depth + 1
            /\ UNCHANGED <<mode, value, exc, held>>
  /\ UNCHANGED <<pipeline, retries, args, kwargs, conns, query_cache, calls>>
  /\ UNCHANGED <<email, tx>>
  /\ UNCHANGED <<keyVars, streamVars, threadVars, withVars, mapVars, cacheVars>>

\* return [sqlite3.Row(row) for row in cacheable_result]
\*        if cacheable_result else []
miss_result(stored) ==
  [ok |-> Materialize(stored).ok, v |-> Materialize(stored).v, shared |-> FALSE]

\* Faulty variant: a cache that holds one entry, the latest store evicts the
\* others.
cache_store_latest(cache, key, stored) == key :> stored

\* Faulty variant: the store keeps an entry that is already there
\* (query_cache.setdefault(cache_key, cacheable_result)).
cache_store_if_absent(cache, key, stored) ==
  IF key \in DOMAIN cache THEN cache ELSE (key :> stored) @@ cache

\* query_cache[cache_key] = cacheable_result
cache_store(cache, key, stored) == (key :> stored) @@ cache

\* func returned. Without a query its result is returned as it is. On a miss
\* the converted result is stored under the key, then re-materialized for
\* the caller.
cache_query_return ==
  /\ mode = "return"
  /\ Layer(depth) = "cache_query"
  /\ IF frames[depth].pc = "bypass"
       THEN UNCHANGED <<mode, value, exc, query_cache, held, log>>
       ELSE LET stored == Cacheable(value)
                m == miss_result(stored)
            IN /\ query_cache' = cache_store(query_cache, cache_key(args, kwargs), stored)
               /\ mode' = IF m.ok THEN "return" ELSE "raise"
               /\ value' = m.v
               /\ exc' = IF m.ok THEN NoExc ELSE Exc("TypeError", "Row", 0)
               /\ held' = IF m.ok THEN Held(cache_key(args, kwargs), m) ELSE held
               /\ log' = IF m.ok THEN log ELSE Append(log, Ev("Row", 0, FALSE))
  /\ depth' = depth - 1
  /\ UNCHANGED <<pipeline, retries, args, kwargs, frames, conns, calls>>
  /\ UNCHANGED <<email, tx>>
  /\ UNCHANGED <<keyVars, streamVars, threadVars, withVars, mapVars, cacheVars>>

\* Faulty variant: the wrapper caches the failure as an empty result
\* (except Exception: query_cache[cache_key] = []; raise).
cache_query_raise_stores ==
  /\ mode = "raise"
  /\ Layer(depth) = "cache_query"
  /\ depth' = depth - 1
  /\ query_cache' = IF frames[depth].pc = "miss"
                       THEN cache_store(query_cache, cache_key(args, kwargs), ListOf(<<>>))
                       ELSE query_cache
  /\ UNCHANGED <<pipeline, retries, args, kwargs, mode, frames, value, exc,
                 conns, log, calls>>
  /\ UNCHANGED <<held, email, tx>>
  /\ UNCHANGED <<keyVars, streamVars, threadVars, withVars, mapVars, cacheVars>>

\* func raised: the wrapper has no handler, the exception passes through.
cache_query_raise ==
  /\ mode = "raise"
  /\ Layer(depth) = "cache_query"
  /\ depth' = depth - 1
  /\ UNCHANGED <<pipeline, retries, args, kwargs, mode, frames, value, exc,
                 conns, log, query_cache, calls>>
  /\ UNCHANGED <<held, email, tx>>
  /\ UNCHANGED <<keyVars, streamVars, threadVars, withVars, mapVars, cacheVars>>

\* The caller changes the list a cached call returned to it (users.append,
\* users.clear, ...). A list that is the stored object itself changes in the
\* cache as well.
Mutate ==
  /\ depth = 0
  /\ mode = "return"
  /\ held.key # <<>>
  /\ ~held.mutated
  /\ held' = [held EXCEPT !.v = ListOf(Append(@.rows, Row(1))), !.mutated = TRUE]
  /\ query_cache' = IF held.shared
                       THEN [query_cache EXCEPT ![held.key] = held'.v]
                       ELSE query_cache
  /\ UNCHANGED <<pipeline, retries, args, kwargs, depth, mode, frames, value,
                 exc, conns, log, calls, email, tx>>
  /\ UNCHANGED <<keyVars, streamVars, threadVars, withVars, mapVars, cacheVars>>

\* ------------------------------------------- cache_query, concurrent callers
\* Two threads call operations wrapped by cache_query. query_cache is one
\* module-level dict: every wrapper and every thread reads and writes it,
\* and nothing in the wrapper holds a lock. Between the test
\* `cache_key in query_cache` and the store the wrapper calls func, which
\* runs a query: another thread can run in between.
Operations == {"fetch_users_with_cache", "fetch_users"}

\* The calls of the threads: one that carries a query, one that does not.
CallerCalls ==
  { <<Kw("query", Q1)>>,
    <<Kw("user_id", PyInt(1))>> }

ThreadKey(t) == cache_key(<<>>, cq_kw[t])

IdleCache ==
  /\ cq_cache = <<>>
  /\ cq_owner = <<>>
  /\ cq_op = [t \in Threads |-> ""]
  /\ cq_kw = [t \in Threads |-> <<>>]
  /\ cq_pc = [t \in Threads |-> "idle"]
  /\ cq_path = [t \in Threads |-> ""]
  /\ cq_result = [t \in Threads |-> NoneValue]
  /\ cq_value = [t \in Threads |-> NoneValue]
  /\ cq_exc = [t \in Threads |-> ""]
  /\ cq_invoked = [t \in Threads |-> 0]
  /\ cq_calls = [t \in Threads |-> 0]

\* A thread calls a wrapped operation.
cq_call(t) ==
  /\ cq_pc[t] \in {"idle", "returned", "raised"}
  /\ cq_calls[t] < MaxCalls
  /\ cq_calls' = [cq_calls EXCEPT ![t] = @ + 1]
  /\ \E op \in Operations : cq_op' = [cq_op EXCEPT ![t] = op]
  /\ \E kw \in CallerCalls : cq_kw' = [cq_kw EXCEPT ![t] = kw]
  /\ cq_pc' = [cq_pc EXCEPT ![t] = "check"]
  /\ cq_path' = [cq_path EXCEPT ![t] = ""]
  /\ cq_result' = [cq_result EXCEPT ![t] = NoneValue]
  /\ cq_value' = [cq_value EXCEPT ![t] = NoneValue]
  /\ cq_exc' = [cq_exc EXCEPT ![t] = ""]
  /\ cq_invoked' = [cq_invoked EXCEPT ![t] = 0]
  /\ UNCHANGED <<cq_cache, cq_owner>>
  /\ UNCHANGED <<callVars, keyVars, streamVars, threadVars, withVars, mapVars>>

\* The wrapper up to its call of func: without a query it goes to func; it
\* builds the key and tests `cache_key in query_cache`; on a hit it returns
\* the re-materialized entry (or raises from the conversion).
cq_check(t) ==
  /\ cq_pc[t] = "check"
  /\ IF cache_bypass(cq_kw[t])
       THEN /\ cq_path' = [cq_path EXCEPT ![t] = "bypass"]
            /\ cq_pc' = [cq_pc EXCEPT ![t] = "func"]
            /\ UNCHANGED <<cq_value, cq_exc>>
       ELSE IF cache_hit(cq_kw[t], <<>>, cq_cache)
       THEN LET m == hit_result(cq_cache[ThreadKey(t)]) IN
            /\ cq_path' = [cq_path EXCEPT ![t] = "hit"]
            /\ cq_pc' = [cq_pc EXCEPT ![t] = IF m.ok THEN "returned" ELSE "raised"]
            /\ cq_value' = [cq_value EXCEPT ![t] = m.v]
            /\ cq_exc' = [cq_exc EXCEPT ![t] = IF m.ok THEN "" ELSE "TypeError"]
       ELSE /\ cq_path' = [cq_path EXCEPT ![t] = "miss"]
            /\ cq_pc' = [cq_pc EXCEPT ![t] = "func"]
            /\ UNCHANGED <<cq_value, cq_exc>>
  /\ UNCHANGED <<cq_cache, cq_owner, cq_op, cq_kw, cq_result, cq_invoked, cq_calls>>
  /\ UNCHANGED <<callVars, keyVars, streamVars, threadVars, withVars, mapVars>>

\* func(conn, *args, **kwargs): the operation returns a result or raises;
\* a failure leaves the wrapper, which has no handler. Without a query the
\* result is returned as it is.
cq_func(t) ==
  /\ cq_pc[t] = "func"
  /\ cq_invoked' = [cq_invoked EXCEPT ![t] = @ + 1]
  /\ \/ \E r \in Results :
          /\ cq_result' = [cq_result EXCEPT ![t] = r]
          /\ IF cq_path[t] = "bypass"
               THEN /\ cq_pc' = [cq_pc EXCEPT ![t] = "returned"]
                    /\ cq_value' = [cq_value EXCEPT ![t] = r]
               ELSE /\ cq_pc' = [cq_pc EXCEPT ![t] = "store"]
                    /\ UNCHANGED cq_value
          /\ UNCHANGED cq_exc
     \/ \E k \in FuncFailures :
          /\ cq_exc' = [cq_exc EXCEPT ![t] = k]
          /\ cq_pc' = [cq_pc EXCEPT ![t] = "raised"]
          /\ UNCHANGED <<cq_result, cq_value>>
  /\ UNCHANGED <<cq_cache, cq_owner, cq_op, cq_kw, cq_path, cq_calls>>
  /\ UNCHANGED <<callVars, keyVars, streamVars, threadVars, withVars, mapVars>>

\* The wrapper after func returned on a miss: the converted result is stored
\* under the key, whatever is there by now, and re-materialized for the
\* caller.
cq_store(t) ==
  /\ cq_pc[t] = "store"
  /\ LET stored == Cacheable(cq_result[t])
         m == miss_result(stored)
     IN /\ cq_cache' = cache_store(cq_cache, ThreadKey(t), stored)
        /\ cq_owner' = (ThreadKey(t) :> [op |-> cq_op[t], ok |-> m.ok, v |-> m.v])
                        @@ cq_owner
        /\ cq_pc' = [cq_pc EXCEPT ![t] = IF m.ok THEN "returned" ELSE "raised"]
        /\ cq_value' = [cq_value EXCEPT ![t] = m.v]
        /\ cq_exc' = [cq_exc EXCEPT ![t] = IF m.ok THEN "" ELSE "TypeError"]
  /\ UNCHANGED <<cq_op, cq_kw, cq_path, cq_result, cq_invoked, cq_calls>>
  /\ UNCHANGED <<callVars, keyVars, streamVars, threadVars, withVars, mapVars>>

\* ------------------------------------------------------ the wrapped function
\* The functions that execute an UPDATE or a DELETE are the ones decorated
\* with transactional (update_user_email, delete_user, simulate_failed_update).
Writes(p) == \E j \in 1..Len(p) : p[j] = "transactional"

\* cursor.execute("UPDATE ...") needs an open connection.
CanWrite(c) == Writes(pipeline) /\ c # 0 /\ conns[c] = "open"

\* The decorated function body runs with the connection it was handed: it
\* may execute a write on it (without committing), then returns a result or
\* raises.
func ==
  /\ mode = "call"
  /\ Layer(depth) = "func"
  /\ \E w \in (IF CanWrite(FirstArg(depth)) THEN {FALSE, TRUE} ELSE {FALSE}) :
       LET c == FirstArg(depth)
           l == IF w THEN Append(log, Ev("execute", c, TRUE)) ELSE log
       IN /\ tx' = IF w THEN email + 1 ELSE tx
          /\ \/ \E r \in Results :
                  /\ value' = r
                  /\ mode' = "return"
                  /\ log' = Append(l, FuncEv(c, TRUE, "", r))
                  /\ UNCHANGED exc
             \/ \E k \in FuncFailures :
                  /\ exc' = Exc(k, "func", Count(log, "func") + 1)
                  /\ mode' = "raise"
                  /\ log' = Append(l, FuncEv(c, FALSE, k, NoneValue))
                  /\ UNCHANGED value
  /\ depth' = depth - 1
  /\ UNCHANGED <<pipeline, retries, args, kwargs, frames, conns, query_cache, calls>>
  /\ UNCHANGED <<held, email>>
  /\ UNCHANGED <<keyVars, streamVars, threadVars, withVars, mapVars, cacheVars>>

\* ------------------------------------------------- two calls and their keys
\* the largest number of positional arguments (after conn) of a call
MaxArgs == 1

ParamValues == {PyInt(1), PyInt(2)}
ParamNames == {"name", "user_id"}

RECURSIVE SeqsUpTo(_, _)
SeqsUpTo(S, n) ==
  IF n = 0 THEN {<<>>}
  ELSE LET shorter == SeqsUpTo(S, n - 1)
       IN shorter \cup {Append(q, x) : q \in {r \in shorter : Len(r) = n - 1}, x \in S}

\* Keyword arguments of a call that carries a query: 'query' and any of the
\* other names, each at most once, in every passing order.
KeywordOrders ==
  LET items == {Kw("query", q) : q \in {Q1, Q2}}
                 \cup {Kw(k, v) : k \in ParamNames, v \in ParamValues}
  IN {kw \in SeqsUpTo(items, Cardinality(ParamNames) + 1) :
        /\ \E j \in 1..Len(kw) : kw[j].k = "query"
        /\ \A i \in 1..Len(kw) : \A j \in 1..Len(kw) : i # j => kw[i].k # kw[j].k}

KeyCalls == [a : SeqsUpTo(ParamValues, MaxArgs), kw : KeywordOrders]

InitKeys ==
  /\ callA \in KeyCalls
  /\ callB \in KeyCalls
  /\ keyA = <<>>
  /\ keyB = <<>>
  /\ keyPc = "called"

\* The wrapper builds the key of each of the two calls (lines 65-74).
cache_query_keys ==
  /\ keyPc = "called"
  /\ ~cache_bypass(callA.kw) /\ ~cache_bypass(callB.kw)
  /\ keyA' = cache_key(callA.a, callA.kw)
  /\ keyB' = cache_key(callB.a, callB.kw)
  /\ keyPc' = "keyed"
  /\ UNCHANGED <<callA, callB>>
 
  /\ UNCHANGED <<callVars, streamVars, threadVars, withVars, mapVars, cacheVars>>

IdleKeys ==
  /\ callA = [a |-> <<>>, kw |-> <<>>]
  /\ callB = [a |-> <<>>, kw |-> <<>>]
  /\ keyA = <<>>
  /\ keyB = <<>>
  /\ keyPc = "idle"

\* ------------------------------------------------------------- the streams
\* the largest number of rows of user_data
MaxRows == 5
\* the largest batch_size
MaxBatch == 3

\* user['age'] > 25
AgeLimit == 25

Ages == {AgeLimit, AgeLimit + 1}

Generators == {"stream_users_in_batches", "batch_processing", "stream_users"}

\* The table: row j is the j-th row the cursor returns.
Tables ==
  {[j \in 1..Len(ages) |-> [id |-> j, age |-> ages[j]]] : ages \in SeqsUpTo(Ages, MaxRows)}

Min(a, b) == IF a < b THEN a ELSE b

InitStream ==
  /\ gen \in Generators
  /\ rows \in Tables
  /\ batch_size \in (IF gen = "stream_users" THEN {0} ELSE 1..MaxBatch)
  /\ inner = "created"
  /\ outer = IF gen = "batch_processing" THEN "created" ELSE "none"
  /\ connection = "none"
  /\ pos = 0
  /\ fetches = 0
  /\ requests = 0
  /\ batch = <<>>
  /\ idx = 0
  /\ out = <<>>
  /\ raised = ""

IdleStream ==
  /\ gen = ""
  /\ rows = <<>>
  /\ batch_size = 0
  /\ inner = "none"
  /\ outer = "none"
  /\ connection = "none"
  /\ pos = 0
  /\ fetches = 0
  /\ requests = 0
  /\ batch = <<>>
  /\ idx = 0
  /\ out = <<>>
  /\ raised = ""

\* The generator the consumer holds.
Top == IF gen = "batch_processing" THEN outer ELSE inner

\* next(): the consumer asks for the next element of a generator that has
\* not started or is suspended at a yield.
Pull ==
  /\ Top \in {"created", "suspended"}
  /\ requests' = requests + 1
  /\ IF gen = "batch_processing"
       THEN outer' = "running" /\ UNCHANGED inner
       ELSE inner' = "running" /\ UNCHANGED outer
  /\ UNCHANGED <<gen, rows, batch_size, connection, pos, fetches, batch, idx,
                 out, raised>>
 
  /\ UNCHANGED <<callVars, keyVars, threadVars, withVars, mapVars, cacheVars>>

\* The consumer stops before the end (islice, break) and drops the
\* generator: GeneratorExit is raised at the yield where it is suspended.
\* No generator of the repository has a try/finally or a with block around
\* its yield, so no statement after the yield runs; a generator that never
\* started just ends.
Abandon ==
  /\ Top \in {"created", "suspended"}
  /\ IF gen = "batch_processing"
       THEN /\ outer' = "abandoned"
            /\ inner' = IF inner = "suspended" THEN "abandoned" ELSE inner
       ELSE inner' = "abandoned" /\ UNCHANGED outer
  /\ UNCHANGED <<gen, rows, batch_size, connection, pos, fetches, requests,
                 batch, idx, out, raised>>
 
  /\ UNCHANGED <<callVars, keyVars, threadVars, withVars, mapVars, cacheVars>>

\* Faulty variant: the cursor hands out one row per fetch (fetchone).
fetchmany_one(n) == SubSeq(rows, pos + 1, Min(pos + 1, Len(rows)))

\* cursor.fetchmany(batch_size): the next rows, at most batch_size of them
fetchmany(n) == SubSeq(rows, pos + 1, Min(pos + n, Len(rows)))

\* Faulty variant: the connection is closed as soon as a fetch comes back
\* short of batch_size, before that batch is yielded.
batches_deliver_close_early(b) ==
  /\ fetches' = fetches + 1
  /\ pos' = pos + Len(b)
  /\ raised' = raised
  /\ IF b = <<>>
       THEN /\ inner' = "finished"
            /\ connection' = "closed"
            /\ UNCHANGED <<out, batch, idx>>
       ELSE /\ inner' = "suspended"
            /\ connection' = IF Len(b) < batch_size THEN "closed" ELSE "open"
            /\ IF gen = "batch_processing"
                 THEN batch' = b /\ idx' = 0 /\ UNCHANGED out
                 ELSE out' = Append(out, b) /\ UNCHANGED <<batch, idx>>

\* Faulty variant: the loop has no `if not batch: break`, an empty batch is
\* yielded like any other.
batches_deliver_no_break(b) ==
  /\ fetches' = fetches + 1
  /\ pos' = pos + Len(b)
  /\ raised' = raised
  /\ inner' = "suspended"
  /\ connection' = "open"
  /\ IF gen = "batch_processing"
       THEN batch' = b /\ idx' = 0 /\ UNCHANGED out
       ELSE out' = Append(out, b) /\ UNCHANGED <<batch, idx>>

\* Faulty variant: the generator fetches the batch after this one as well
\* before it yields (read-ahead).
batches_deliver_ahead(b) ==
  /\ fetches' = fetches + 2
  /\ pos' = pos + Len(b)
  /\ raised' = raised
  /\ IF b = <<>>
       THEN /\ inner' = "finished"
            /\ connection' = "closed"
            /\ UNCHANGED <<out, batch, idx>>
       ELSE /\ inner' = "suspended"
            /\ connection' = "open"
            /\ IF gen = "batch_processing"
                 THEN batch' = b /\ idx' = 0 /\ UNCHANGED out
                 ELSE out' = Append(out, b) /\ UNCHANGED <<batch, idx>>

\* What a resumed stream_users_in_batches does with the batch it fetched:
\* an empty batch ends the loop and runs cursor.close(); connection.close();
\* any other batch is yielded (to the consumer, or to batch_processing).
batches_deliver(b) ==
  /\ fetches' = fetches + 1
  /\ pos' = pos + Len(b)
  /\ raised' = raised
  /\ IF b = <<>>
       THEN /\ inner' = "finished"
            /\ connection' = "closed"
            /\ UNCHANGED <<out, batch, idx>>
       ELSE /\ inner' = "suspended"
            /\ connection' = "open"
            /\ IF gen = "batch_processing"
                 THEN batch' = b /\ idx' = 0 /\ UNCHANGED out
                 ELSE out' = Append(out, b) /\ UNCHANGED <<batch, idx>>

\* stream_users_in_batches runs to its next yield or to its end. On the
\* first resume it connects and executes the query: connect_to_prodev
\* returns None when the connection fails, and connection.cursor() then
\* raises AttributeError; a failing execute or fetchmany raises the
\* connector's Error out of the generator, with the connection left open.
stream_users_in_batches_resume ==
  /\ gen \in {"stream_users_in_batches", "batch_processing"}
  /\ inner = "running"
  /\ \/ /\ connection = "none"
        /\ inner' = "failed"
        /\ raised' = "AttributeError"
        /\ UNCHANGED <<connection, pos, fetches, batch, idx, out>>
     \/ /\ connection = "none"
        /\ inner' = "failed"
        /\ raised' = "Error"
        /\ connection' = "open"
        /\ UNCHANGED <<pos, fetches, batch, idx, out>>
     \/ /\ inner' = "failed"
        /\ raised' = "Error"
        /\ connection' = "open"
        /\ fetches' = fetches + 1
        /\ UNCHANGED <<pos, batch, idx, out>>
     \/ batches_deliver(fetchmany(batch_size))
  /\ UNCHANGED <<gen, rows, batch_size, outer, requests>>
 
  /\ UNCHANGED <<callVars, keyVars, threadVars, withVars, mapVars, cacheVars>>

\* Faulty variant: the test is user['age'] >= 25.
NextMatch_at_least(b, i) ==
  LET S == {j \in (i + 1)..Len(b) : b[j].age >= AgeLimit}
  IN IF S = {} THEN 0 ELSE CHOOSE j \in S : \A k \in S : j <= k

\* The first row at or after position i of batch b with age > 25, or 0.
NextMatch(b, i) ==
  LET S == {j \in (i + 1)..Len(b) : b[j].age > AgeLimit}
  IN IF S = {} THEN 0 ELSE CHOOSE j \in S : \A k \in S : j <= k

\* batch_processing goes on in the batch it holds: it yields the next user
\* over the age limit, or asks the batch stream for its next batch.
batch_processing_resume ==
  /\ gen = "batch_processing"
  /\ outer = "running"
  /\ inner \in {"created", "suspended"}
  /\ IF NextMatch(batch, idx) # 0
       THEN /\ out' = Append(out, batch[NextMatch(batch, idx)])
            /\ idx' = NextMatch(batch, idx)
            /\ outer' = "suspended"
            /\ UNCHANGED inner
       ELSE /\ inner' = "running"
            /\ idx' = Len(batch)
            /\ UNCHANGED <<out, outer>>
  /\ UNCHANGED <<gen, rows, batch_size, connection, pos, fetches, requests,
                 batch, raised>>
 
  /\ UNCHANGED <<callVars, keyVars, threadVars, withVars, mapVars, cacheVars>>

\* The batch stream ended or raised while batch_processing was waiting for
\* a batch: the for loop ends, or the exception passes to the consumer.
batch_processing_end ==
  /\ gen = "batch_processing"
  /\ outer = "running"
  /\ inner \in {"finished", "failed"}
  /\ outer' = inner
  /\ UNCHANGED <<gen, rows, batch_size, inner, connection, pos, fetches,
                 requests, batch, idx, out, raised>>
 
  /\ UNCHANGED <<callVars, keyVars, threadVars, withVars, mapVars, cacheVars>>

\* stream_users runs to its next yield or to its end. Everything is inside
\* try ... except Error: print; return, so a failing connect, execute or
\* fetch ends the generator without an exception; after the last row it runs
\* cursor.close(); connection.close().
stream_users_resume ==
  /\ gen = "stream_users"
  /\ inner = "running"
  /\ \/ /\ inner' = "finished"
        /\ connection' = IF connection = "none" THEN "none" ELSE "open"
        /\ raised' = ""
        /\ UNCHANGED <<pos, fetches, out>>
     \/ /\ connection = "none"
        /\ inner' = "finished"
        /\ connection' = "open"
        /\ raised' = ""
        /\ UNCHANGED <<pos, fetches, out>>
     \/ /\ fetches' = fetches + 1
        /\ raised' = ""
        /\ IF pos < Len(rows)
             THEN /\ out' = Append(out, rows[pos + 1])
                  /\ pos' = pos + 1
                  /\ inner' = "suspended"
                  /\ connection' = "open"
             ELSE /\ inner' = "finished"
                  /\ connection' = "closed"
                  /\ UNCHANGED <<pos, out>>
  /\ UNCHANGED <<gen, rows, batch_size, outer, requests, batch, idx>>
 
  /\ UNCHANGED <<callVars, keyVars, threadVars, withVars, mapVars, cacheVars>>

\* --------------------------------------------------------- access_nested_map
\* the longest path of a call
MaxPath == 3

\* A value of a nested map: an int, or a dict given by its items.
Leaf(n) == [t |-> "int", n |-> n, items |-> {}]
Dict(items) == [t |-> "dict", n |-> 0, items |-> items]

MapKeys == {"a", "b"}

\* The dicts over MapKeys whose values are in vals.
Dicts(vals) ==
  UNION {{Dict({[k |-> key, v |-> f[key]] : key \in K}) : f \in [K -> vals]} :
         K \in SUBSET MapKeys}

\* Maps nested up to two levels over two ints ({"a": {"b": 2}}), and up to
\* three levels over one.
NestedMaps ==
  LET ints == {Leaf(1), Leaf(2)}
      flat == Dicts({Leaf(1)})
      two  == Dicts({Leaf(1)} \cup flat)
  IN Dicts(ints \cup Dicts(ints)) \cup Dicts({Leaf(1)} \cup two)

Paths == SeqsUpTo(MapKeys, MaxPath)

\* isinstance(nested_map, Mapping)
IsMapping(m) == m.t = "dict"

HasKey(m, key) == \E it \in m.items : it.k = key

\* nested_map[key]
GetItem(m, key) == (CHOOSE it \in m.items : it.k = key).v

Returned(v) == [ok |-> TRUE, v |-> v, key |-> ""]
KeyError(key) == [ok |-> FALSE, v |-> Leaf(0), key |-> key]

\* Faulty variant: only the first key of the path is followed
\* (return nested_map[path[0]]).
access_nested_map_first(m, p) ==
  IF p = <<>> THEN Returned(m)
  ELSE IF IsMapping(m) /\ HasKey(m, Head(p))
         THEN Returned(GetItem(m, Head(p)))
         ELSE KeyError(Head(p))

\* Faulty variant: the KeyError carries the whole path (raise KeyError(path)
\* reported by its last key).
RECURSIVE access_nested_map_last(_, _)
access_nested_map_last(m, p) ==
  IF p = <<>> THEN Returned(m)
  ELSE IF IsMapping(m) /\ HasKey(m, Head(p))
         THEN LET r == access_nested_map_last(GetItem(m, Head(p)), Tail(p))
              IN IF r.ok THEN r ELSE KeyError(p[Len(p)])
         ELSE KeyError(p[Len(p)])

\* for key in path: a value that is not a mapping, or a mapping without the
\* key, raises KeyError(key); otherwise nested_map = nested_map[key];
\* after the loop: return nested_map
RECURSIVE access_nested_map(_, _)
access_nested_map(m, p) ==
  IF p = <<>> THEN Returned(m)
  ELSE IF IsMapping(m) /\ HasKey(m, Head(p))
         THEN access_nested_map(GetItem(m, Head(p)), Tail(p))
         ELSE KeyError(Head(p))

IdleMaps ==
  /\ nested_map = Dict({})
  /\ path = <<>>
  /\ map_pc = "idle"
  /\ map_out = Returned(Leaf(0))

InitMaps ==
  /\ nested_map \in NestedMaps
  /\ path \in Paths
  /\ map_pc = "call"
  /\ map_out = Returned(Leaf(0))

\* access_nested_map(nested_map, path)
call_access_nested_map ==
  /\ map_pc = "call"
  /\ map_out' = access_nested_map(nested_map, path)
  /\ map_pc' = "done"
  /\ UNCHANGED <<nested_map, path>>
  /\ UNCHANGED <<callVars, keyVars, streamVars, threadVars, withVars, cacheVars>>

\* ------------------------------------------------------- the specifications
\* The decorated calls.
Init ==
  InitCalls /\ IdleKeys /\ IdleStream /\ IdleThreads /\ IdleWith /\ IdleMaps
  /\ IdleCache

Next ==
  \/ Call
  \/ with_db_connection_enter
  \/ with_db_connection_return
  \/ with_db_connection_except
  \/ with_db_connection_1_return
  \/ with_db_connection_1_except
  \/ transactional_enter
  \/ transactional_return
  \/ transactional_except
  \/ retry_on_failure_enter
  \/ retry_on_failure_return
  \/ retry_on_failure_except
  \/ cache_query_enter
  \/ cache_query_return
  \/ cache_query_raise
  \/ Mutate
  \/ func

Spec == Init /\ [][Next]_vars

\* transactional called with a first argument of the caller's.
NextDirect ==
  \/ CallDirect
  \/ transactional_enter
  \/ transactional_return
  \/ transactional_except
  \/ retry_on_failure_enter
  \/ retry_on_failure_except
  \/ func

SpecDirect == Init /\ [][NextDirect]_vars

\* The keys of two calls of a cache_query wrapper.
InitKeyCalls ==
  InitCalls /\ InitKeys /\ IdleStream /\ IdleThreads /\ IdleWith /\ IdleMaps
  /\ IdleCache

NextKeys == cache_query_keys

SpecKeys == InitKeyCalls /\ [][NextKeys]_vars

\* A generator and its consumer.
NextStream ==
  \/ Pull
  \/ Abandon
  \/ stream_users_in_batches_resume
  \/ batch_processing_resume
  \/ batch_processing_end
  \/ stream_users_resume

InitConsumer ==
  InitCalls /\ IdleKeys /\ InitStream /\ IdleThreads /\ IdleWith /\ IdleMaps
  /\ IdleCache

SpecStream == InitConsumer /\ [][NextStream]_vars

\* A consumer that never stops early: every generator is resumed until it
\* ends (for batch in stream_users_in_batches(n): ...). A resumed generator
\* runs to its next yield, and the consumer's loop asks again.
NextPulling ==
  \/ Pull
  \/ stream_users_in_batches_resume
  \/ batch_processing_resume
  \/ batch_processing_end
  \/ stream_users_resume

SpecPulling == InitConsumer /\ [][NextPulling]_vars /\ WF_vars(NextPulling)

\* Two threads, each calling the wrapped operation up to MaxCalls times, their
\* steps interleaved in every order.
InitCallers ==
  InitCalls /\ IdleKeys /\ IdleStream /\ InitThreads /\ IdleWith /\ IdleMaps
  /\ IdleCache

NextThreads ==
  \/ \E t \in Threads : thread_call(t)
  \/ \E t \in Threads : thread_try(t)
  \/ \E t \in Threads : thread_except(t)

SpecThreads == InitCallers /\ [][NextThreads]_vars

\* with statements over the two context managers, one after the other.
NextWith ==
  \/ with_statement
  \/ DatabaseConnection_enter
  \/ ExecuteQuery_enter
  \/ block_execute
  \/ block_end
  \/ DatabaseConnection_exit
  \/ ExecuteQuery_exit

SpecWith == Init /\ [][NextWith]_vars

\* One call of access_nested_map on a nested map and a path.
InitLookup ==
  InitCalls /\ IdleKeys /\ IdleStream /\ IdleThreads /\ IdleWith /\ InitMaps
  /\ IdleCache

NextMaps == call_access_nested_map

SpecMaps == InitLookup /\ [][NextMaps]_vars

\* Two threads calling cache_query-wrapped operations, their steps
\* interleaved in every order.
NextCache ==
  \/ \E t \in Threads : cq_call(t)
  \/ \E t \in Threads : cq_check(t)
  \/ \E t \in Threads : cq_func(t)
  \/ \E t \in Threads : cq_store(t)

SpecCache == Init /\ [][NextCache]_vars

\* =================================================================== claims
Has(layer) == \E j \in 1..Len(pipeline) : pipeline[j] = layer
Ended == depth = 0 /\ mode \in {"return", "raise"}
FuncCalls == {j \in 1..Len(log) : log[j].ev = "func"}
Opened == {log[j].c : j \in {i \in 1..Len(log) : log[i].ev = "connect" /\ log[i].ok}}

\* C1: in every call through with_db_connection that acquired its
\* connection, close is invoked on that connection exactly once, whether the
\* operation returned or raised (a database error or any other failure);
\* never more than once at any point of the call.
C1_ClosedExactlyOnce ==
  /\ \A c \in 1..Len(conns) : CountOn(log, "close", c) <= 1
  /\ (Ended /\ Has("with_db_connection")) =>
       \A c \in Opened : CountOn(log, "close", c) = 1 /\ conns[c] = "closed"

\* C1 witness: a call whose operation raised a non-database failure has
\* ended with its connection closed once.
C1_Witness ==
  /\ Ended /\ mode = "raise" /\ exc.kind = "ValueError"
  /\ Opened # {}
  /\ \A c \in Opened : CountOn(log, "close", c) = 1

TransactionalCallWhere(ok) ==
  /\ Ended /\ Has("transactional")
  /\ \E j \in FuncCalls : log[j].ok = ok

\* C2 as claimed: when the operation returns normally, commit is invoked
\* exactly once and rollback is never invoked during the call.
C2_Original ==
  TransactionalCallWhere(TRUE) =>
    Count(log, "commit") = 1 /\ Count(log, "rollback") = 0

\* C2 amended: when the operation returns normally, commit is invoked exactly
\* once; if that commit succeeds rollback is never invoked and the call
\* returns; if the commit itself raises, rollback is invoked exactly once,
\* after the commit, and the commit's failure reaches the caller.
C2_CommitOnceRollbackOnlyAfterFailedCommit ==
  TransactionalCallWhere(TRUE) =>
    /\ Count(log, "commit") = 1
    /\ \A j \in 1..Len(log) : log[j].ev = "commit" =>
         IF log[j].ok
           THEN Count(log, "rollback") = 0 /\ mode = "return"
           ELSE /\ Count(log, "rollback") = 1
                /\ \E m \in (j + 1)..Len(log) : log[m].ev = "rollback"
                /\ mode = "raise" /\ exc.origin = "commit"

\* C2 witness: the operation returned, the commit succeeded, the call returned.
C2_Witness ==
  /\ TransactionalCallWhere(TRUE) /\ mode = "return"
  /\ \E j \in 1..Len(log) : log[j].ev = "commit" /\ log[j].ok

\* C3: when the operation raises, rollback is invoked exactly once, commit
\* is never invoked, and the exception that reaches the caller is the one the
\* operation raised: same class, raised by the operation, not replaced.
C3_RollbackOnceAndReraise ==
  TransactionalCallWhere(FALSE) =>
    /\ Count(log, "rollback") = 1
    /\ Count(log, "commit") = 0
    /\ mode = "raise"
    /\ \E j \in FuncCalls : exc = Exc(log[j].k, "func", 1)

\* C3 witness: simulate_failed_update raised ZeroDivisionError and the call
\* ended with it.
C3_Witness ==
  /\ TransactionalCallWhere(FALSE)
  /\ exc.kind = "ZeroDivisionError" /\ Count(log, "rollback") = 1

\* The retry wrapper gave up: every attempt failed and the call raised.
RetryExhausted ==
  /\ Ended /\ Has("retry_on_failure")
  /\ mode = "raise" /\ exc.origin = "func"

\* C4 as claimed: the configured bound counts total tries, so a bound of N
\* gives exactly N invocations and N-1 delays before the last failure is
\* raised (3 gives 3 invocations and 2 delays).
C4_Original ==
  RetryExhausted =>
    Count(log, "func") = retries /\ Count(log, "sleep") = retries - 1

\* C4 amended: the configured value counts the retries after the first try:
\* retries = N (N >= 0) around an operation that fails on every attempt gives
\* exactly N+1 invocations and N delays, and then the failure of the last
\* attempt is raised (retries = 3 gives 4 invocations and 3 delays).
C4_RetriesPlusOneAttempts ==
  RetryExhausted =>
    /\ Count(log, "func") = retries + 1
    /\ Count(log, "sleep") = retries
    /\ \A j \in FuncCalls : ~log[j].ok
    /\ \E j \in FuncCalls :
         /\ \A m \in FuncCalls : m <= j
         /\ exc = Exc(log[j].k, "func", retries + 1)

\* C4 witness: retries = 3, every attempt failed, the call raised.
C4_Witness == RetryExhausted /\ retries = 3 /\ Count(log, "func") = 4

\* C5: when the operation fails on attempts 1..k-1 and succeeds on attempt
\* k, the wrapper returns the result of attempt k, the operation was invoked
\* exactly k times (never again after the success) and k-1 delays occurred.
C5_ReturnsFirstSuccess ==
  Has("retry_on_failure") =>
    \A k \in FuncCalls : log[k].ok =>
      /\ \A j \in FuncCalls : j <= k /\ (j < k => ~log[j].ok)
      /\ Count(log, "sleep") = Cardinality(FuncCalls) - 1
      /\ Ended => (mode = "return" /\ value = log[k].v)

\* C5 witness: two failures, then a success on the third attempt that the
\* caller received.
C5_Witness ==
  /\ Ended /\ Has("retry_on_failure") /\ mode = "return"
  /\ Cardinality(FuncCalls) = 3
  /\ value = ListOf(<<Row(1), Row(2)>>)

CachedCall == Has("cache_query") /\ ~cache_bypass(kwargs)

\* C6: a call that finds its key in the cache does not invoke the wrapped
\* operation: the operation is only ever invoked while the key is absent, a
\* hit leaves the invocation count of the call at zero, and once the operation
\* has returned the key is stored, so every later identical call is a hit.
C6_HitNeverInvokes ==
  CachedCall =>
    /\ (mode = "call" /\ Layer(depth) = "func") =>
         cache_key(args, kwargs) \notin DOMAIN query_cache
    /\ Count(log, "hit") > 0 => Count(log, "func") = 0
    /\ (Ended /\ \E j \in FuncCalls : log[j].ok) =>
         cache_key(args, kwargs) \in DOMAIN query_cache

\* C6 witness: a second call found its key and ended without invoking the
\* operation.
C6_Witness ==
  /\ CachedCall /\ Ended /\ calls = 2
  /\ Count(log, "hit") = 1 /\ Count(log, "func") = 0

\* C9 as claimed: in fetch_users_with_retry every attempt runs on a
\* connection opened for it: the connection handed to a failed attempt is
\* closed before the next attempt starts and is not passed to a later attempt.
C9_FreshConnectionPerAttempt ==
  (Has("retry_on_failure") /\ Has("with_db_connection")) =>
    \A j \in FuncCalls : \A k \in FuncCalls : j < k =>
      /\ log[j].c # log[k].c
      /\ \E m \in (j + 1)..(k - 1) : log[m].ev = "close" /\ log[m].c = log[j].c

\* The bind parameters of a call: the query, the positional values in their
\* order, and the keyword arguments as a name -> value mapping.
KwItems(c) == {c.kw[j] : j \in 1..Len(c.kw)}
SameQueryAndParams(x, y) == x.a = y.a /\ KwItems(x) = KwItems(y)

\* C7: two calls with the same query and the same parameter values produce
\* the same cache key, whatever the order in which the keyword arguments
\* were passed.
C7_SameParamsSameKey ==
  (keyPc = "keyed" /\ SameQueryAndParams(callA, callB)) => keyA = keyB

\* C7 witness: the same three keyword arguments passed in two different
\* orders got one key.
C7_Witness ==
  /\ keyPc = "keyed"
  /\ Len(callA.kw) = 3 /\ callA.kw # callB.kw
  /\ SameQueryAndParams(callA, callB)
  /\ keyA = keyB

C10_AbandonedStreamClosed ==
  (Top = "abandoned" /\ connection # "none" /\ pos < Len(rows)) =>
    connection = "closed"

\* The rows of a sequence of batches, one after the other.
RECURSIVE Flatten(_)
Flatten(bs) == IF bs = <<>> THEN <<>> ELSE bs[1] \o Flatten(Tail(bs))

\* ceil(n / b)
CeilDiv(n, b) == (n + b - 1) \div b

\* C11: stream_users_in_batches(b) over n rows yields ceil(n/b) batches: the
\* k-th batch is rows (k-1)b+1 .. min(kb, n), so every batch has b rows but a
\* last one of n mod b rows when that is not zero, no batch is empty, and the
\* batches put end to end are the rows of the source in their order. While
\* the traversal goes on the batches delivered are the first ones of these.
C11_BatchesPartitionSource ==
  gen = "stream_users_in_batches" =>
    /\ \A k \in 1..Len(out) :
         out[k] = SubSeq(rows, (k - 1) * batch_size + 1,
                         Min(k * batch_size, Len(rows)))
    /\ \A k \in 1..Len(out) : out[k] # <<>>
    /\ inner = "finished" =>
         /\ Len(out) = CeilDiv(Len(rows), batch_size)
         /\ Flatten(out) = rows

\* C11 witness: 5 rows streamed in batches of 2 to the end gave batches of
\* sizes 2, 2, 1.
C11_Witness ==
  /\ gen = "stream_users_in_batches" /\ inner = "finished"
  /\ Len(rows) = 5 /\ batch_size = 2
  /\ Len(out) = 3 /\ Len(out[1]) = 2 /\ Len(out[2]) = 2 /\ Len(out[3]) = 1

OverAgeLimit(u) == u.age > AgeLimit

\* The rows batch_processing has looked at: those of the batches before the
\* one it holds, and the scanned ones of that batch.
Scanned == SubSeq(rows, 1, pos - Len(batch) + idx)

\* C12: batch_processing yields exactly the rows whose age is greater than
\* 25 (a row of age 25 is left out), each once, in the order of the source,
\* whatever the batch size: at every point the rows delivered are the rows
\* over 25 among those scanned, and at the end those of the whole source.
C12_YieldsRowsOverAgeLimit ==
  gen = "batch_processing" =>
    /\ out = SelectSeq(Scanned, OverAgeLimit)
    /\ outer = "finished" => out = SelectSeq(rows, OverAgeLimit)

\* C12 witness: a traversal in batches of 2 that ended after delivering some
\* rows and leaving out a row of age 25 that sits between two delivered rows.
C12_Witness ==
  /\ gen = "batch_processing" /\ outer = "finished" /\ batch_size = 2
  /\ Len(rows) = 5 /\ Len(out) = 3
  /\ rows[1].age > AgeLimit /\ rows[2].age = AgeLimit /\ rows[3].age > AgeLimit

\* transactional was called by the caller itself with a first argument that
\* is not an open connection.
InvalidFirstArgument ==
  /\ pipeline = <<"transactional">>
  /\ depth > 0 \/ Ended
  /\ PassedConn(args) = 0 \/ conns[PassedConn(args)] # "open"

\* C17 as claimed: a call of the transactional wrapper whose first argument
\* is not a valid open connection (a closed connection included) invokes
\* neither the operation nor commit nor rollback, and ends by raising the
\* invalid-argument failure.
C17_InvalidConnectionRejected ==
  InvalidFirstArgument =>
    /\ Count(log, "func") = 0
    /\ Count(log, "commit") = 0
    /\ Count(log, "rollback") = 0
    /\ Ended => (mode = "raise" /\ exc = Exc("TypeError", "transactional", 0))

\* The steps of the call that failed, and the exception each of them raises.
FailedSteps == {j \in 1..Len(log) : ~log[j].ok}

RaisedBy(j) ==
  CASE log[j].ev = "func" ->
         Exc(log[j].k, "func", Cardinality({m \in FuncCalls : m <= j}))
    [] log[j].ev = "connect" -> Exc("OperationalError", "connect", 0)
    [] log[j].ev = "commit" -> Exc("OperationalError", "commit", 0)
    [] log[j].ev \in {"hit", "Row"} -> Exc("TypeError", "Row", 0)
    [] OTHER -> NoExc

\* C13: whatever the stack of layers, the failure that reaches the caller is
\* the one raised by the last step that failed (the operation's last attempt,
\* the connect, the commit, the conversion of the rows), with its class and
\* its origin; after that step the layers only roll back and close, and the
\* delays lie between the attempts.
C13_OriginalFailureSurfaces ==
  (Ended /\ mode = "raise") =>
    /\ FailedSteps # {}
    /\ LET j == CHOOSE a \in FailedSteps : \A b \in FailedSteps : b <= a
       IN /\ exc = RaisedBy(j)
          /\ \A m \in (j + 1)..Len(log) : log[m].ev \in {"rollback", "close"}
          /\ \A m \in 1..j : log[m].ev = "sleep" =>
               \E a \in FuncCalls : \E b \in FuncCalls : a < m /\ m < b

\* C13 witness: under with_db_connection and retry_on_failure with 2
\* retries the attempts failed with OperationalError, then ValueError twice;
\* the caller got the ValueError of the third attempt, after the close.
C13_Witness ==
  /\ RetryExhausted /\ retries = 2
  /\ exc = Exc("ValueError", "func", 3)
  /\ \E j \in FuncCalls : log[j].k = "OperationalError"
  /\ log[Len(log)].ev = "close"

RowIds(v) == [j \in 1..Len(v.rows) |-> v.rows[j].id]

\* C14 as claimed: a miss of a call that carries a query invokes the
\* operation once, stores the converted result under the key of the call and
\* returns to the caller the rows the operation returned, in their order,
\* whatever the operation returned.
C14_MissReturnsOperationResult ==
  (CachedCall /\ Ended /\ Count(log, "miss") = 1) =>
    \A j \in FuncCalls : log[j].ok =>
      /\ Count(log, "func") = 1
      /\ cache_key(args, kwargs) \in DOMAIN query_cache
      /\ query_cache[cache_key(args, kwargs)] = Cacheable(log[j].v)
      /\ mode = "return"
      /\ RowIds(value) = RowIds(log[j].v)

HitReturned ==
  CachedCall /\ Ended /\ mode = "return" /\ Count(log, "hit") = 1

BypassCall == Has("cache_query") /\ \A j \in 1..Len(kwargs) : kwargs[j].k # "query"

\* C16: a call without a query never looks up or stores anything (no step of
\* it changes query_cache), makes no conversion that could fail, invokes the
\* operation once, and ends with the operation's own result or failure.
C16_NoQueryBypassesCache ==
  /\ [](BypassCall =>
          /\ Count(log, "hit") = 0 /\ Count(log, "miss") = 0
          /\ Count(log, "Row") = 0
          /\ (Ended /\ Opened # {}) =>
               /\ Count(log, "func") = 1
               /\ \A j \in FuncCalls :
                    IF log[j].ok THEN mode = "return" /\ value = log[j].v
                    ELSE mode = "raise" /\ exc = Exc(log[j].k, "func", 1))
  /\ [][BypassCall => query_cache' = query_cache]_vars

\* C16 witness: with an entry in the cache, a call without a query returned
\* the two rows of the operation.
C16_Witness ==
  /\ BypassCall /\ Ended /\ mode = "return"
  /\ DOMAIN query_cache # {}
  /\ Count(log, "func") = 1
  /\ value = ListOf(<<Row(1), Row(2)>>)

Settles(j) == log[j].ev \in {"commit", "rollback"}

\* C18: under with_db_connection outside transactional every commit and
\* every rollback of the call comes before the close of the connection, and
\* a call that invoked the operation has committed or rolled back by the
\* time the connection is closed.
C18_SettledBeforeClose ==
  (Has("with_db_connection") /\ Has("transactional")) =>
    \A m \in 1..Len(log) : log[m].ev = "close" =>
      /\ \A j \in 1..Len(log) : Settles(j) => j < m /\ log[j].c = log[m].c
      /\ FuncCalls # {} => \E j \in 1..(m - 1) : Settles(j)

\* C18 witness: the operation raised, the rollback was issued and then the
\* connection was closed.
C18_Witness ==
  /\ Ended /\ Has("with_db_connection") /\ Has("transactional")
  /\ \E j \in 1..Len(log) : \E m \in 1..Len(log) :
       log[j].ev = "rollback" /\ log[m].ev = "close" /\ j < m

FailedTransaction ==
  /\ Has("with_db_connection") /\ Has("transactional")
  /\ \E j \in FuncCalls : ~log[j].ok

\* C19: the committed value of the row changes only in the step of a commit
\* that succeeds after the operation returned; a call whose operation wrote
\* and then raised leaves the committed value as it was before the call, and
\* ends with no write pending.
C19_FailedUpdateNotVisible ==
  /\ [](FailedTransaction /\ Ended => tx = NoTx)
  /\ [][FailedTransaction => email' = email]_vars
  /\ [][email' # email =>
          /\ FuncCalls # {} /\ \A j \in FuncCalls : log[j].ok
          /\ Len(log') = Len(log) + 1
          /\ log'[Len(log')].ev = "commit" /\ log'[Len(log')].ok]_vars

\* C19 witness: after a first call committed an update, a second call
\* updated the row, raised ZeroDivisionError and ended; the row holds the
\* value of the first update.
C19_Witness ==
  /\ FailedTransaction /\ Ended /\ calls = 2
  /\ Count(log, "execute") = 1
  /\ exc.kind = "ZeroDivisionError"
  /\ email = 1 /\ tx = NoTx

AcquisitionFailed ==
  Has("with_db_connection") /\ \E j \in 1..Len(log) : log[j] = Ev("connect", 0, FALSE)

\* C20: when sqlite3.connect fails inside with_db_connection the operation
\* is never invoked, no close, commit or rollback is attempted, and the
\* failure of the connect reaches the caller.
C20_AcquisitionFailurePropagates ==
  AcquisitionFailed =>
    /\ Count(log, "func") = 0
    /\ Count(log, "close") = 0
    /\ Count(log, "commit") = 0
    /\ Count(log, "rollback") = 0
    /\ mode = "raise" /\ exc = Exc("OperationalError", "connect", 0)

\* C20 witness: the connect of a call of update_user_email failed and the
\* call ended with that failure.
C20_Witness ==
  /\ AcquisitionFailed /\ Ended
  /\ pipeline = <<"with_db_connection", "transactional">>
  /\ exc.origin = "connect"

\* C21 as claimed: no definition of with_db_connection issues a commit or a
\* rollback on its connection on any exit path: every commit and every
\* rollback of a call is issued by another layer.
C21_ScopeNeverCommitsOrRollsBack ==
  \A j \in 1..Len(log) : Settles(j) => log[j].k # "with_db_connection"

\* The rows a stream generator has handed to its consumer.
Delivered == IF gen = "stream_users_in_batches" THEN Flatten(out) ELSE out

\* C22 as claimed (for the stream generators): no failure becomes a normal
\* return: a stream that ends without raising has delivered every row of
\* the source.
C22_NoFailureSwallowed ==
  (gen \in {"stream_users", "stream_users_in_batches"} /\ inner = "finished"
     /\ raised = "") =>
    Delivered = rows

\* C23 as claimed: when transactional under retry_on_failure raises its
\* precondition failure, it is invoked once only, no delay occurs and the
\* failure reaches the caller.
C23_PreconditionFailureNotRetried ==
  (pipeline = <<"retry_on_failure", "transactional">>
     /\ Count(log, "precondition") > 0) =>
    /\ Count(log, "precondition") = 1
    /\ Count(log, "sleep") = 0
    /\ Ended => (mode = "raise" /\ exc = Exc("TypeError", "transactional", 0))

BatchStream == gen \in {"stream_users_in_batches", "batch_processing"}

\* C24: the batch stream is consumer-pull: a stream that was created and not
\* yet asked for anything has connected to nothing and fetched nothing; a
\* fetch is issued only while the consumer waits for an element it asked for,
\* one fetch at a time; and a consumer of stream_users_in_batches has never
\* caused more fetches, nor received more batches, than it asked for.
C24_ConsumerPull ==
  /\ []((BatchStream /\ inner = "created") =>
          (fetches = 0 /\ pos = 0 /\ connection = "none"))
  /\ [](gen = "stream_users_in_batches" =>
          (fetches <= requests /\ Len(out) <= requests))
  /\ [][(BatchStream /\ fetches' # fetches) =>
          (fetches' = fetches + 1 /\ Top = "running")]_vars

\* C24 witness: the consumer asked for two batches of a longer source and
\* two fetches have been issued.
C24_Witness ==
  /\ gen = "stream_users_in_batches" /\ inner = "suspended"
  /\ requests = 2 /\ fetches = 2 /\ Len(out) = 2
  /\ pos < Len(rows)

HitCall == CachedCall /\ Count(log, "hit") = 1

\* C25 as claimed: a hit of fetch_users_with_cache opens no connection and
\* executes no query.
C25_Original ==
  HitCall =>
    /\ Count(log, "connect") = 0
    /\ Count(log, "func") = 0
    /\ Count(log, "execute") = 0

\* C25 amended: a hit of fetch_users_with_cache never invokes the operation
\* and executes no query; with_db_connection, the outer layer, has opened one
\* connection before the lookup and closes it, unused, when the call ends.
C25_HitRunsNoQuery ==
  HitCall =>
    /\ Count(log, "func") = 0
    /\ Count(log, "execute") = 0
    /\ Count(log, "connect") = 1 /\ log[1].ev = "connect" /\ log[1].ok
    /\ Count(log, "close") = (IF Ended THEN 1 ELSE 0)
    /\ Ended => (log[Len(log)].ev = "close" /\ conns[log[1].c] = "closed")

\* C25 witness: a second identical call was a hit that returned, on a
\* connection opened and closed for it.
C25_Witness ==
  /\ HitCall /\ Ended /\ mode = "return" /\ calls = 2
  /\ Count(log, "connect") = 1 /\ Count(log, "close") = 1

\* C29: the cache never evicts and never expires: no step of any call removes
\* a key from query_cache or changes the value stored under a key, so every
\* key once stored stays, with the value that was stored first.
C29_NeverEvicts ==
  [][\A key \in DOMAIN query_cache :
        /\ key \in DOMAIN query_cache'
        /\ query_cache'[key] = query_cache[key]]_vars

\* C29 witness: a second key was stored by a later call and both are there.
C29_Witness ==
  /\ calls = 2 /\ CachedCall /\ Ended /\ Count(log, "miss") = 1
  /\ Cardinality(DOMAIN query_cache) = 2

StreamEnded == inner \in {"finished", "failed"}

\* C30: a consumer that keeps pulling from stream_users_in_batches reaches
\* the end of the stream, for every source and every positive batch size; a
\* fetch that returns no row ends the stream; and a stream that has ended
\* yields no further batch, issues no further fetch and stays ended.
C30_PullingReachesEnd ==
  /\ [](BatchStream => batch_size > 0)
  /\ (BatchStream ~> StreamEnded)
  /\ [][(BatchStream /\ fetches' # fetches /\ pos' = pos /\ raised' = "") =>
          inner' = "finished"]_vars
  /\ [][(BatchStream /\ StreamEnded) =>
          (inner' = inner /\ fetches' = fetches /\ pos' = pos
           /\ (gen = "stream_users_in_batches" => out' = out))]_vars

\* C30 witness: the consumer pulled a source of several batches to its end:
\* the last fetch was the empty one and every row was delivered.
C30_Witness ==
  /\ gen = "stream_users_in_batches" /\ inner = "finished" /\ raised = ""
  /\ Len(rows) = MaxRows /\ batch_size = 2
  /\ fetches = CeilDiv(Len(rows), batch_size) + 1
  /\ Flatten(out) = rows

\* C26: the attempt counter belongs to one call: under every interleaving of
\* two threads calling the same wrapped operation, and for the first call of
\* a thread as for a later one, a call never invokes the operation more than
\* retries + 1 times, a call that raises has invoked it exactly retries + 1
\* times with retries delays, and a call that returns after k attempts has
\* slept k - 1 times.
C26_CounterPerCall ==
  \A t \in Threads :
    /\ th_attempts[t] <= retry_range(th_retries)
    /\ th_pc[t] = "raised" =>
         (th_attempts[t] = th_retries + 1 /\ th_sleeps[t] = th_retries)
    /\ (th_pc[t] = "returned" /\ th_attempts[t] > 0) =>
         th_sleeps[t] = th_attempts[t] - 1

\* C26 witness: one thread exhausted its second call while the other, in the
\* middle of a call, has failed once and is about to try again.
C26_Witness ==
  /\ th_retries = MaxRetries
  /\ th_calls[1] = MaxCalls /\ th_pc[1] = "raised"
  /\ th_attempts[1] = MaxRetries + 1
  /\ th_pc[2] = "try" /\ th_attempts[2] = 1 /\ th_sleeps[2] = 1

WithCount(ev) == Cardinality({j \in 1..Len(with_log) : with_log[j].ev = ev})

WithOpened == \E j \in 1..Len(with_log) : with_log[j] = WithEv("connect", TRUE)

AttemptOf(j) == Cardinality({m \in FuncCalls : m <= j})

\* C31: retry_on_failure treats every kind of failure alike: whatever the
\* kind (database error, value error, arithmetic error), a failed attempt
\* that is not the last one allowed is followed by a delay and is never the
\* failure the call ends with; a call that raises the operation's failure
\* has made retries + 1 attempts and retries delays whatever the kinds of
\* the failures on the way.
C31_EveryKindRetried ==
  (pipeline = <<"with_db_connection", "retry_on_failure">>) =>
    /\ \A kind \in FuncFailures : \A j \in FuncCalls :
         (log[j].k = kind /\ ~log[j].ok /\ AttemptOf(j) <= retries) =>
           /\ j < Len(log) => log[j + 1].ev = "sleep"
           /\ j = Len(log) => ~Ended
    /\ RetryExhausted =>
         (Count(log, "func") = retries + 1 /\ Count(log, "sleep") = retries)

\* C31 witness: a call that failed three times, each time with a failure of
\* another kind, and was retried after the first two.
C31_Witness ==
  /\ RetryExhausted /\ retries = 2
  /\ {log[j].k : j \in FuncCalls} = FuncFailures
  /\ Count(log, "sleep") = 2

\* The value reached from the map m by the keys of p, the last key applied
\* to what the keys before it reach; Leaf(0) when they reach nothing.
RECURSIVE Reach(_, _)
Reach(m, p) ==
  IF p = <<>> THEN m
  ELSE LET before == Reach(m, SubSeq(p, 1, Len(p) - 1))
           key == p[Len(p)]
       IN IF IsMapping(before) /\ HasKey(before, key)
            THEN GetItem(before, key) ELSE Leaf(0)

\* Key j of p is present at its level: what the keys before it reach is a
\* map that has it.
Present(m, p, j) ==
  LET before == Reach(m, SubSeq(p, 1, j - 1))
  IN IsMapping(before) /\ HasKey(before, p[j])

AllPresent(m, p) == \A j \in 1..Len(p) : Present(m, p, j)

\* C32: for a path whose keys are all present at their level,
\* access_nested_map returns the value reached by following the keys in
\* order, a map when the path stops before a leaf.
C32_ReturnsValueAtPath ==
  (map_pc = "done" /\ AllPresent(nested_map, path)) =>
    (map_out.ok /\ map_out.v = Reach(nested_map, path))

\* C32 witness: a path of two keys that stops at a map inside a map of
\* three levels.
C32_Witness ==
  /\ map_pc = "done" /\ Len(path) = 2 /\ AllPresent(nested_map, path)
  /\ map_out.ok /\ IsMapping(map_out.v) /\ map_out.v.items # {}

\* C33: for a path with a key that cannot be followed (absent at its level,
\* or applied to a value that is not a map), access_nested_map raises
\* KeyError with the first such key of the path as its argument.
C33_KeyErrorNamesFirstMissingKey ==
  (map_pc = "done" /\ ~AllPresent(nested_map, path)) =>
    LET first == CHOOSE j \in 1..Len(path) :
                   /\ ~Present(nested_map, path, j)
                   /\ \A i \in 1..(j - 1) : Present(nested_map, path, i)
    IN ~map_out.ok /\ map_out.key = path[first]

\* C33 witness: the second key of a path of three is applied to an int and
\* differs from the last key.
C33_Witness ==
  /\ map_pc = "done" /\ Len(path) = 3 /\ path[2] # path[3]
  /\ Present(nested_map, path, 1)
  /\ ~IsMapping(Reach(nested_map, <<path[1]>>))
  /\ ~map_out.ok /\ map_out.key = path[2]

\* A step in which thread t makes its lookup and finds an entry that another
\* operation stored under the key of its call.
FindsEntryOfOther(t) ==
  /\ cq_pc[t] = "check" /\ cq_pc'[t] # "check"
  /\ ThreadKey(t) \in DOMAIN cq_cache
  /\ cq_owner[ThreadKey(t)].op # cq_op[t]

\* C34 as claimed: the key does not name the operation: a call of an
\* operation with the query and parameters another operation stored a result
\* under is a hit, it returns the rows stored by that other operation, and
\* its own operation is not invoked.
C34_OtherOperationsEntryReturned ==
  [][\A t \in Threads : FindsEntryOfOther(t) =>
        /\ cq_path'[t] = "hit"
        /\ cq_invoked'[t] = 0
        /\ cq_pc'[t] = "returned"
        /\ RowIds(cq_value'[t]) = RowIds(cq_cache[ThreadKey(t)])]_vars

\* Thread t's call carries a query and took the miss branch.
Missed(t) == cq_path[t] = "miss"

\* C35: the check and the store are two steps with the operation's call in
\* between and no lock: a call that makes its lookup while no entry is
\* stored under its key misses, whatever the other thread is doing; every
\* call that missed invokes the operation (two of them invoke it twice);
\* and a store overwrites whatever is under the key by then, so the entry
\* left is the one written last.
C35_CheckThenPopulateNotAtomic ==
  /\ [](\A t \in Threads :
          (Missed(t) /\ cq_pc[t] \in {"store", "returned"}) => cq_invoked[t] = 1)
  /\ [][\A t \in Threads :
          (cq_pc[t] = "check" /\ cq_pc'[t] # "check"
           /\ "query" \in {cq_kw[t][j].k : j \in 1..Len(cq_kw[t])}
           /\ ThreadKey(t) \notin DOMAIN cq_cache) => Missed(t)']_vars
  /\ [][\A t \in Threads :
          (cq_pc[t] = "store" /\ cq_pc'[t] # "store") =>
            cq_cache'[ThreadKey(t)] = Cacheable(cq_result[t])]_vars

\* C35 witness: the first calls of the two threads, with the same key, both
\* missed and both invoked the operation; the results differ and the entry
\* in the cache is the one of the thread that stored last.
C35_Witness ==
  /\ cq_calls = [t \in Threads |-> 1]
  /\ ThreadKey(1) = ThreadKey(2)
  /\ Missed(1) /\ Missed(2)
  /\ cq_invoked = [t \in Threads |-> 1]
  /\ \A t \in Threads : cq_pc[t] \in {"returned", "raised"} /\ cq_exc[t] \in {"", "TypeError"}
  /\ Cacheable(cq_result[1]) # Cacheable(cq_result[2])
  /\ cq_cache[ThreadKey(2)] = Cacheable(cq_result[2])

\* C36: on a traversal to the end of stream_users_in_batches, directly or
\* through batch_processing, the connection is open whenever the stream is
\* suspended at a yield; it is closed in the step of the empty fetch that
\* ends the stream, when every row of the source has been handed out; a
\* stream that finished has its connection closed; and a closed connection
\* stays closed (one close).
C36_OpenUntilExhausted ==
  /\ []((BatchStream /\ inner = "suspended") => connection = "open")
  /\ []((BatchStream /\ inner = "finished") =>
          (connection = "closed" /\ pos = Len(rows)))
  /\ [][(BatchStream /\ connection # "closed" /\ connection' = "closed") =>
          /\ fetches' = fetches + 1
          /\ pos = Len(rows) /\ pos' = pos
          /\ inner' = "finished"
          /\ gen = "stream_users_in_batches" => Flatten(out) = rows]_vars
  /\ [][(BatchStream /\ connection = "closed") => connection' = "closed"]_vars

\* C36 witness: batch_processing was iterated to its end over a source of
\* several batches whose last batch is short; the connection is closed.
C36_Witness ==
  /\ gen = "batch_processing" /\ outer = "finished" /\ raised = ""
  /\ Len(rows) = 3 /\ batch_size = 2 /\ fetches = 3
  /\ connection = "closed" /\ Len(out) = 2

\* A step in which thread t makes its lookup and finds its key.
HitStep(t) == cq_pc[t] = "check" /\ cq_path'[t] = "hit"

OperationFailed == CachedCall /\ \E j \in FuncCalls : ~log[j].ok

\* C38: a miss whose operation raises stores nothing: query_cache changes
\* only in the step where the wrapper receives the operation's result, the
\* key of a call whose operation raised is not in the cache during or after
\* the call, that call ends by raising the operation's failure, and a call
\* that looks up a key that is not stored misses and goes on to invoke the
\* operation.
C38_FailedMissStoresNothing ==
  /\ [](OperationFailed =>
          /\ cache_key(args, kwargs) \notin DOMAIN query_cache
          /\ Ended => (mode = "raise" /\ exc.origin = "func"
                        /\ exc.kind = log[CHOOSE j \in FuncCalls : TRUE].k))
  /\ [][query_cache' # query_cache =>
          (mode = "return" /\ Layer(depth) = "cache_query")]_vars
  /\ [][(CachedCall /\ mode = "call" /\ Layer(depth) = "cache_query"
          /\ cache_key(args, kwargs) \notin DOMAIN query_cache) =>
          (Count(log', "miss") = 1 /\ Layer(depth') = "func" /\ mode' = "call")]_vars

\* C38 witness: a second call missed, its operation raised and the failure
\* reached the caller; the entry an earlier call stored is there, the key
\* of the failed call is not.
C38_Witness ==
  /\ OperationFailed /\ Ended /\ calls = 2
  /\ mode = "raise" /\ exc.kind = "ValueError"
  /\ Cardinality(DOMAIN query_cache) = 1
  /\ cache_key(args, kwargs) \notin DOMAIN query_cache

\* A call of fetch_users_with_retry whose connection was opened, so that the
\* retry wrapper was called, and that is over.
RetryCallOver ==
  /\ pipeline = <<"with_db_connection", "retry_on_failure">>
  /\ Ended /\ Opened # {}

\* C39 as claimed: whatever the configured retries (0 and negative values
\* included), a call of the retry wrapper invokes the operation at least
\* once and ends by returning the result of an invocation or by raising the
\* failure of one.
C39_InvokedAtLeastOnce ==
  RetryCallOver =>
    /\ Count(log, "func") >= 1
    /\ mode = "return" => \E j \in FuncCalls : log[j].ok /\ value = log[j].v
    /\ mode = "raise" => exc.origin = "func"

====
